---- MODULE Spec2Model ----
(***************************************************************************)
(* A model of the LSP process pool (lspProcessPool: acquire / release /    *)
(* shutdown) and of the JSON-RPC client it drives (createLSPClient:        *)
(* sendRequest, handleMessage, the request timeout, the process exit       *)
(* handler and stop).                                                      *)
(*                                                                         *)
(* JavaScript runs each callback to its next await without interruption,   *)
(* so every action below is one such run: the synchronous prefix of an     *)
(* async function, or the continuation resumed by a settled promise, a     *)
(* timer, or an event of the child process.                                *)
(***************************************************************************)
EXTENDS Integers, Sequences, FiniteSets, TLC

\* ------------------------------------------------------------------ bounds
MaxProcs == 2        \* server processes spawned in one run
NumCallers == 2      \* concurrent users of the pool
MaxRequests == 3     \* requests one client sends in one run
MaxWaiters == 2      \* waitForDiagnostics calls in one run
MaxNotes == 4        \* document notifications one client writes in one run
MaxTools == 2        \* tool operations in one run
MaxEntries == 3      \* entries under one key of a symbol index
MaxVersion == 2      \* version numbers callers pass to updateDocument

Roots == {"rootA", "rootB"}
Pids == 1..MaxProcs
Callers == 1..NumCallers
Ids == 1..MaxRequests
Payloads == {"v1", "v2"}

VARIABLES
  \* --- the pool (poolState) and the entries it creates
  pool,              \* poolState.pool: root -> entry (the pid of its process), 0 = no entry
  initPromises,      \* poolState.initPromises: root -> pid whose createClient() promise is stored, 0 = none
  refCount,          \* PooledLSPClient.refCount of the entry of each pid
  createState,       \* state of the promise of start() / createClient(): none / pending / resolved / rejected
  procRoot,          \* the root each process was spawned for
  spawned,           \* number of processes spawned so far
  \* --- one LSP client per process (LSPClientState)
  process,           \* state.process: "none" (not created), "running", "null"
  killed,            \* process.kill() was called
  messageId,         \* state.messageId
  responseHandlers,  \* state.responseHandlers: id -> request number of the handler closure, 0 = absent
  reqs,              \* the sendRequest calls made so far, in call order
  written,           \* the messages written to the server's stdin, in order
  delivered,         \* per id, the first two responses the server sent with it (history)
  stopPhase,         \* position of stop(): none / awaitShutdown / grace / done
  \* --- users of the pool
  cpc,               \* caller position: idle / initiating / joining / holding (acquire
                     \* resolved) / failed (acquire rejected)
  cpid,              \* the entry a caller awaits, holds or was refused, 0 = none
  sdPc,              \* position of the last shutdown(): idle (never called) / awaiting / resolved
  sdSet,             \* entries the last shutdown() removed
  sdInit,            \* the initializations in flight when a shutdown() was called (history)
  \* --- the handshake of start()
  hasHook,           \* the language of the client has a postInitialize hook
  hookPc,            \* position of that hook: none / running / done / failed
  \* --- the session of one started client (documents, diagnostics, server requests)
  openDocuments,     \* the Set openDocuments of the client
  diagnostics,       \* state.diagnostics: uri -> stored list, Absent = no entry
  published,         \* per uri the list carried by the last publishDiagnostics received (history)
  docWritten,        \* the document notifications written to the server, in order
  waiters,           \* the waitForDiagnostics calls
  serverRequests,    \* ids of the requests received from the server (history)
  pullUri,           \* uri of the pullDiagnostics call that sent each request id
  tools,             \* the tool operations using the client
  \* --- the symbol index (SymbolIndexState)
  fileIndex,         \* state.fileIndex: uri -> the record of the file (present, symbols)
  symbolIndex,       \* state.symbolIndex: name -> entries (no key = empty)
  kindIndex,         \* state.kindIndex: kind -> entries
  containerIndex,    \* state.containerIndex: container name -> entries
  fileWatchers,      \* state.fileWatchers: absolute path -> the path its watcher was made for, "-" = none
  indexing,          \* position of the indexFile call made with each path
  lastIndexOp,       \* the index operation that ran last (history)
  \* --- calls of the functions that change no state
  call,              \* the last call: its name and arguments
  ret,               \* what that call returned
  \* --- the files on disk, the symbol cache and the reindex queue
  disk,              \* absolute path -> the content of the file (a number)
  changed,           \* absolute path -> the watcher has a "change" event to deliver
  cache,             \* the symbol cache: absolute path -> entry (hash 0 = none)
  indexingQueue,     \* state.indexingQueue
  isIndexing,        \* state.isIndexing
  reindexing,        \* position of the indexFile call the drain made with each path
  flat,              \* the server answers documentSymbol with SymbolInformation
  \* --- the reader of the server's stdout
  buffer,            \* state.buffer: the characters not yet consumed
  contentLength,     \* state.contentLength: -1 = no pending body
  stdout,            \* the data chunks (bytes) the server has written and the client not yet read
  messages           \* the messages passed to handleMessage, in order

poolVars == <<pool, initPromises, refCount, createState, procRoot, spawned>>
clientVars == <<process, killed, messageId, responseHandlers, reqs, written, delivered, stopPhase>>
callerVars == <<cpc, cpid, sdPc, sdSet, sdInit>>
hookVars == <<hasHook, hookPc>>
sessionVars == <<openDocuments, diagnostics, published, docWritten, waiters, serverRequests,
                 pullUri, tools>>
indexVars == <<fileIndex, symbolIndex, kindIndex, containerIndex, fileWatchers, indexing,
               lastIndexOp>>
callVars == <<call, ret>>
readerVars == <<buffer, contentLength, stdout, messages>>
watchVars == <<disk, changed, cache, indexingQueue, isIndexing, reindexing, flat>>
vars == <<poolVars, clientVars, callerVars, hookVars, sessionVars, indexVars, callVars, readerVars,
          watchVars>>

\* ------------------------------------------------------------ the client
NoHandlers == [i \in Ids |-> 0]

Msg(m, i) == [method |-> m, id |-> i]

NextIdReused(p) == IF messageId[p] = 0 THEN 1 ELSE messageId[p]

\* const id = ++state.messageId
NextId(p) == messageId[p] + 1

\* One sendRequest call: the timeout armed, the handler registered, the message
\* written. sendMessage throws when state.process is null; the throw rejects the
\* promise ("sendError") after the timer and the handler were set.
NewReq(p, m, live) ==
  [id |-> NextId(p), method |-> m, timer |-> "armed",
   outcome |-> IF live THEN "pending" ELSE "sendError",
   val |-> "-", nResp |-> 0, nTimeout |-> 0]

\* sendRequest(method) on every client of S; Live is the set of clients whose
\* state.process is set when the call is made.
SendRequestOn(S, m, Live) ==
  /\ messageId' = [p \in Pids |-> IF p \in S THEN NextId(p) ELSE messageId[p]]
  /\ reqs' = [p \in Pids |-> IF p \in S THEN Append(reqs[p], NewReq(p, m, p \in Live)) ELSE reqs[p]]
  /\ responseHandlers' =
       [p \in Pids |-> IF p \in S
                       THEN [responseHandlers[p] EXCEPT ![NextId(p)] = Len(reqs[p]) + 1]
                       ELSE responseHandlers[p]]
  /\ written' = [p \in Pids |-> IF p \in S /\ p \in Live
                                THEN Append(written[p], Msg(m, NextId(p)))
                                ELSE written[p]]

CanSend(p) == NextId(p) \in Ids

InitializedSentAlways(p, ok) == process[p] = "running"

\* initialize() after `await sendRequest("initialize")`: a rejection skips the rest;
\* sendNotification("initialized") throws when state.process is null.
InitializedSent(p, ok) == ok /\ process[p] = "running"

\* What the code awaiting a request does when the request's promise settles.
\*   initialize: initialize() sends `initialized`, then awaits the postInitialize hook
\*               of the language if it has one; without a hook start() and
\*               createClient() return the entry with refCount 1; a failure rejects.
\*   shutdown:   stop() sends `exit` after a successful answer and ignores a failure.
Continue(p, m, ok) ==
  CASE m = "initialize" ->
         /\ createState' = [createState EXCEPT ![p] =
                              IF InitializedSent(p, ok)
                              THEN (IF hasHook[p] THEN @ ELSE "resolved")
                              ELSE "rejected"]
         /\ refCount' = [refCount EXCEPT ![p] =
                              IF InitializedSent(p, ok) /\ ~hasHook[p] /\ procRoot[p] # "-"
                              THEN 1 ELSE @]
         /\ written' = [written EXCEPT ![p] =
                              IF InitializedSent(p, ok) THEN Append(@, Msg("initialized", 0)) ELSE @]
         /\ hookPc' = [hookPc EXCEPT ![p] =
                              IF InitializedSent(p, ok) /\ hasHook[p] THEN "running" ELSE @]
         /\ UNCHANGED stopPhase
    [] m = "shutdown" ->
         /\ written' = [written EXCEPT ![p] =
                              IF ok /\ process[p] = "running" THEN Append(@, Msg("exit", 0)) ELSE @]
         /\ stopPhase' = [stopPhase EXCEPT ![p] = "grace"]
         /\ UNCHANGED <<createState, refCount, hookPc>>
    [] OTHER -> UNCHANGED <<createState, refCount, written, stopPhase, hookPc>>

NoContinue == UNCHANGED <<createState, refCount, written, stopPhase, hookPc>>

ReqAfterResponseKeepsTimer(r, msg) ==
  [r EXCEPT !.nResp = @ + 1,
            !.outcome = IF @ = "pending" THEN msg.kind ELSE @,
            !.val = IF r.outcome = "pending" THEN msg.val ELSE @]

\* The handler closure sendRequest registers for a request, called with a response:
\* clearTimeout, delete, then resolve or reject by response.error.
ReqAfterResponse(r, msg) ==
  [r EXCEPT !.timer = "cleared",
            !.nResp = @ + 1,
            !.outcome = IF @ = "pending" THEN msg.kind ELSE @,
            !.val = IF r.outcome = "pending" THEN msg.val ELSE @]

\* handleMessage for a response: look the handler up by message.id, call it, delete.
HandleMessage(p, msg) ==
  LET k == responseHandlers[p][msg.id] IN
  IF k = 0
  THEN UNCHANGED <<reqs, responseHandlers>> /\ NoContinue
  ELSE /\ reqs' = [reqs EXCEPT ![p][k] = ReqAfterResponse(@, msg)]
       /\ responseHandlers' =
            [responseHandlers EXCEPT ![p] =
               [i \in Ids |-> IF i = reqs[p][k].id \/ i = msg.id THEN 0 ELSE @[i]]]
       /\ IF reqs[p][k].outcome = "pending"
          THEN Continue(p, reqs[p][k].method, msg.kind = "result")
          ELSE NoContinue

\* The setTimeout callback of request k.
ReqAfterTimeout(r) ==
  [r EXCEPT !.timer = "fired",
            !.nTimeout = @ + 1,
            !.outcome = IF @ = "pending" THEN "timeout" ELSE @]

HandlersKeptAfterTimeout(p, k) == responseHandlers[p]

\* state.responseHandlers.delete(id) in the timeout callback
HandlersAfterTimeout(p, k) == [responseHandlers[p] EXCEPT ![reqs[p][k].id] = 0]

\* --------------------------------------------- documents, diagnostics, index
Uris == {"u1", "u2"}
\* The value of a map lookup that finds no entry.
Absent == <<"absent">>

\* The session of a client nothing has used yet.
NoSession ==
  /\ openDocuments = {}
  /\ diagnostics = [u \in Uris |-> Absent]
  /\ published = [u \in Uris |-> Absent]
  /\ docWritten = <<>>
  /\ waiters = <<>>
  /\ serverRequests = {}
  /\ pullUri = [i \in Ids |-> "-"]
  /\ tools = <<>>

\* removeFileFromIndex / indexFile take a path relative to state.rootPath.
Paths == {"a.ts", "./a.ts", "b.ts"}
AbsPaths == {"/r/a.ts", "/r/b.ts"}
FileUris == {"file:///r/a.ts", "file:///r/b.ts"}
\* The file of an external library (result.files of indexExternalLibraries).
ExternalUris == {"file:///r/node_modules/lib/index.d.ts"}
IndexedUris == FileUris \cup ExternalUris
Names == {"Foo", "bar", "fooBar"}
Kinds == {"class", "method", "function"}

\* A file without a record in state.fileIndex.
NoRecord == [present |-> FALSE, symbols |-> <<>>]

\* createSymbolIndexState
NoIndex ==
  /\ fileIndex = [u \in IndexedUris |-> NoRecord]
  /\ symbolIndex = [n \in Names |-> <<>>]
  /\ kindIndex = [k \in Kinds |-> <<>>]
  /\ containerIndex = [n \in Names |-> <<>>]
  /\ fileWatchers = [a \in AbsPaths |-> "-"]
  /\ indexing = [p \in Paths |-> "none"]
  /\ lastIndexOp = [op |-> "none", path |-> "-"]

\* No function was called yet.
NoCall == call = [op |-> "none"] /\ ret = <<>>
NoReader == buffer = <<>> /\ contentLength = 0 - 1 /\ stdout = <<>> /\ messages = <<>>

MaxContent == 2
NoEntry == [hash |-> 0, symbols |-> <<>>]
Idle == [pc |-> "none", content |-> 0, req |-> 0]

\* Files with their first content, an empty cache, no watcher event, no drain.
NoWatch ==
  /\ disk = [a \in AbsPaths |-> 1]
  /\ changed = [a \in AbsPaths |-> FALSE]
  /\ cache = [a \in AbsPaths |-> NoEntry]
  /\ indexingQueue = {}
  /\ isIndexing = FALSE
  /\ reindexing = [p \in Paths |-> Idle]
  /\ flat = FALSE

\* ------------------------------------------------------------------ Init
Init ==
  /\ pool = [r \in Roots |-> 0]
  /\ initPromises = [r \in Roots |-> 0]
  /\ refCount = [p \in Pids |-> 0]
  /\ createState = [p \in Pids |-> "none"]
  /\ procRoot = [p \in Pids |-> "-"]
  /\ spawned = 0
  /\ process = [p \in Pids |-> "none"]
  /\ killed = [p \in Pids |-> FALSE]
  /\ messageId = [p \in Pids |-> 0]
  /\ responseHandlers = [p \in Pids |-> NoHandlers]
  /\ reqs = [p \in Pids |-> <<>>]
  /\ written = [p \in Pids |-> <<>>]
  /\ delivered = [p \in Pids |-> [i \in Ids |-> <<>>]]
  /\ stopPhase = [p \in Pids |-> "none"]
  /\ cpc = [c \in Callers |-> "idle"]
  /\ cpid = [c \in Callers |-> 0]
  /\ sdPc = "idle"
  /\ sdSet = {}
  /\ sdInit = {}
  /\ hasHook = [p \in Pids |-> FALSE]
  /\ hookPc = [p \in Pids |-> "none"]
  /\ NoSession
  /\ NoIndex
  /\ NoCall
  /\ NoWatch
  /\ NoReader

\* ------------------------------------------------------- the pool: acquire
\* A caller is free to call acquire when it awaits and holds nothing.
CanCall(c) == cpc[c] \in {"idle", "failed"}

\* acquire(root), an entry exists: existing.refCount++; return existing.
AcquireExisting(c, r) ==
  /\ CanCall(c)
  /\ pool[r] # 0
  /\ refCount' = [refCount EXCEPT ![pool[r]] = @ + 1]
  /\ cpc' = [cpc EXCEPT ![c] = "holding"]
  /\ cpid' = [cpid EXCEPT ![c] = pool[r]]
  /\ UNCHANGED <<pool, initPromises, createState, procRoot, spawned, clientVars, sdPc, sdSet, sdInit>>
  /\ UNCHANGED <<hookVars, sessionVars, indexVars, callVars, readerVars, watchVars>>

\* createClient(root) up to its await, then initPromises.set and the await of acquire:
\* spawn, createLSPClient, start() -> initialize() -> sendRequest("initialize").
CreateAndAwait(c, r) ==
  LET p == spawned + 1 IN
  /\ spawned < MaxProcs
  /\ spawned' = p
  /\ procRoot' = [procRoot EXCEPT ![p] = r]
  /\ process' = [process EXCEPT ![p] = "running"]
  /\ createState' = [createState EXCEPT ![p] = "pending"]
  /\ SendRequestOn({p}, "initialize", {p})
  /\ initPromises' = [initPromises EXCEPT ![r] = p]
  /\ cpc' = [cpc EXCEPT ![c] = "initiating"]
  /\ cpid' = [cpid EXCEPT ![c] = p]
  /\ UNCHANGED <<pool, refCount, killed, delivered, stopPhase, sdPc, sdSet, sdInit>>
  /\ UNCHANGED <<hookVars, sessionVars, indexVars, callVars, readerVars, watchVars>>

\* acquire(root), no entry and no initialization in flight.
AcquireSpawn(c, r) ==
  /\ CanCall(c)
  /\ pool[r] = 0
  /\ initPromises[r] = 0
  /\ CreateAndAwait(c, r)

AcquireJoinSpawns(c, r) ==
  /\ CanCall(c)
  /\ pool[r] = 0
  /\ initPromises[r] # 0
  /\ CreateAndAwait(c, r)

\* acquire(root), an initialization is in flight: return initPromise.
AcquireJoin(c, r) ==
  /\ CanCall(c)
  /\ pool[r] = 0
  /\ initPromises[r] # 0
  /\ cpc' = [cpc EXCEPT ![c] = "joining"]
  /\ cpid' = [cpid EXCEPT ![c] = initPromises[r]]
  /\ UNCHANGED <<poolVars, clientVars, sdPc, sdSet, sdInit>>
  /\ UNCHANGED <<hookVars, sessionVars, indexVars, callVars, readerVars, watchVars>>

InitPromisesKeptOnFailure(r, ok) ==
  IF ok THEN [initPromises EXCEPT ![r] = 0] ELSE initPromises

\* finally { poolState.initPromises.delete(root) }
InitPromisesAfterAwait(r, ok) == [initPromises EXCEPT ![r] = 0]

PoolStoresAlways(r, p, ok) == [pool EXCEPT ![r] = p]

\* poolState.pool.set(root, pooledClient), reached only when the await did not throw
PoolAfterAwait(r, p, ok) == IF ok THEN [pool EXCEPT ![r] = p] ELSE pool

\* The initiating acquire resumes after `await promise`.
InitiatorContinue(c) ==
  LET p == cpid[c]
      r == procRoot[p]
      ok == createState[p] = "resolved" IN
  /\ cpc[c] = "initiating"
  /\ createState[p] \in {"resolved", "rejected"}
  /\ pool' = PoolAfterAwait(r, p, ok)
  /\ initPromises' = InitPromisesAfterAwait(r, ok)
  /\ cpc' = [cpc EXCEPT ![c] = IF ok THEN "holding" ELSE "failed"]
  /\ UNCHANGED <<refCount, createState, procRoot, spawned, clientVars, cpid, sdPc, sdSet, sdInit>>
  /\ UNCHANGED <<hookVars, sessionVars, indexVars, callVars, readerVars, watchVars>>

\* A caller that was handed the in-flight promise resumes. Its reaction was
\* registered after the initiator's, so it runs after InitiatorContinue.
JoinerResolve(c) ==
  LET p == cpid[c]
      ok == createState[p] = "resolved" IN
  /\ cpc[c] = "joining"
  /\ createState[p] \in {"resolved", "rejected"}
  /\ \A d \in Callers : ~(cpc[d] = "initiating" /\ cpid[d] = p)
  /\ cpc' = [cpc EXCEPT ![c] = IF ok THEN "holding" ELSE "failed"]
  /\ UNCHANGED <<poolVars, clientVars, cpid, sdPc, sdSet, sdInit>>
  /\ UNCHANGED <<hookVars, sessionVars, indexVars, callVars, readerVars, watchVars>>

\* ------------------------------------------------------- the client: stop
Running == {p \in Pids : process[p] = "running"}

\* stop() up to its first await, on every client of S:
\* if (state.process) { await sendRequest("shutdown") ... } else nothing.
StopOn(S) ==
  /\ SendRequestOn(S \cap Running, "shutdown", Running)
  /\ stopPhase' = [p \in Pids |-> IF p \in S
                                   THEN (IF p \in Running THEN "awaitShutdown" ELSE "done")
                                   ELSE stopPhase[p]]

KillWithoutWaiting(p) ==
  /\ stopPhase[p] \in {"awaitShutdown", "grace"}
  /\ stopPhase' = [stopPhase EXCEPT ![p] = "done"]
  /\ killed' = [killed EXCEPT ![p] = @ \/ process[p] = "running"]
  /\ process' = [process EXCEPT ![p] = "null"]
  /\ UNCHANGED <<poolVars, messageId, responseHandlers, reqs, written, delivered, callerVars>>
  /\ UNCHANGED <<hookVars, sessionVars, indexVars, callVars, readerVars, watchVars>>

\* stop() after the 100 ms grace timer: kill unless killed, state.process = null.
\* With state.process already null the read of .killed throws and is caught.
GraceElapsed(p) ==
  /\ stopPhase[p] = "grace"
  /\ stopPhase' = [stopPhase EXCEPT ![p] = "done"]
  /\ killed' = [killed EXCEPT ![p] = @ \/ process[p] = "running"]
  /\ process' = [process EXCEPT ![p] = "null"]
  /\ UNCHANGED <<poolVars, messageId, responseHandlers, reqs, written, delivered, callerVars>>
  /\ UNCHANGED <<hookVars, sessionVars, indexVars, callVars, readerVars, watchVars>>

\* ------------------------------------------------------- the pool: release
ReleaseKeepsAtZero(rc) == rc < 0

\* if (pooledClient.refCount <= 0)
ReleaseRemoves(rc) == rc <= 0

\* release(root) by a caller that holds a handle for root.
Release(c) ==
  LET r == procRoot[cpid[c]]
      e == pool[r] IN
  /\ cpc[c] = "holding"
  /\ cpc' = [cpc EXCEPT ![c] = "idle"]
  /\ cpid' = [cpid EXCEPT ![c] = 0]
  /\ IF e = 0
     THEN UNCHANGED <<pool, refCount, messageId, responseHandlers, reqs, written, stopPhase>>
     ELSE /\ refCount' = [refCount EXCEPT ![e] = @ - 1]
          /\ IF ReleaseRemoves(refCount[e] - 1)
             THEN /\ pool' = [pool EXCEPT ![r] = 0]
                  /\ CanSend(e)
                  /\ StopOn({e})
             ELSE UNCHANGED <<pool, messageId, responseHandlers, reqs, written, stopPhase>>
  /\ UNCHANGED <<initPromises, createState, procRoot, spawned, process, killed, delivered,
                 sdPc, sdSet, sdInit>>
  /\ UNCHANGED <<hookVars, sessionVars, indexVars, callVars, readerVars, watchVars>>

\* ------------------------------------------------------ the pool: shutdown
PoolEntries == {pool[r] : r \in Roots} \ {0}

ShutdownSkipsShared == {p \in PoolEntries : refCount[p] <= 1}

\* for (const [root, pooledClient] of poolState.pool.entries()): every entry
ShutdownTargets == PoolEntries

\* The initializations shutdown() does not see: they are in initPromises only.
InFlight == {initPromises[r] : r \in Roots} \ {0}

\* shutdown() up to `await Promise.all`: delete every entry, start its cleanup.
\* When no stop() has anything to wait for (no entry, or no process attached),
\* Promise.all resolves before any other event is served.
ShutdownCall ==
  /\ sdPc # "awaiting"
  /\ \A p \in ShutdownTargets : CanSend(p)
  /\ pool' = [r \in Roots |-> IF pool[r] \in ShutdownTargets THEN 0 ELSE pool[r]]
  /\ StopOn(ShutdownTargets)
  /\ sdSet' = ShutdownTargets
  /\ sdInit' = sdInit \cup InFlight
  /\ sdPc' = IF ShutdownTargets \cap Running = {} THEN "resolved" ELSE "awaiting"
  /\ UNCHANGED <<initPromises, refCount, createState, procRoot, spawned, process, killed,
                 delivered, cpc, cpid>>
  /\ UNCHANGED <<hookVars, sessionVars, indexVars, callVars, readerVars, watchVars>>

\* Promise.all(cleanupPromises) resolves: every stop() has returned.
ShutdownResolve ==
  /\ sdPc = "awaiting"
  /\ \A p \in sdSet : stopPhase[p] = "done"
  /\ sdPc' = "resolved"
  /\ UNCHANGED <<poolVars, clientVars, cpc, cpid, sdSet, sdInit>>
  /\ UNCHANGED <<hookVars, sessionVars, indexVars, callVars, readerVars, watchVars>>

\* ------------------------------------------- the client: server and timers
\* The server answers (or answers again) a request id; processBuffer hands the
\* message to handleMessage.
ServerResponse(p, i, kind, v) ==
  /\ process[p] = "running"
  /\ i <= messageId[p]
  /\ HandleMessage(p, [id |-> i, kind |-> kind, val |-> v])
  /\ UNCHANGED <<pool, initPromises, procRoot, spawned, process, killed, messageId, callerVars>>
  /\ UNCHANGED <<hasHook, indexVars, callVars, readerVars, watchVars>>

\* An answer to a client owned by the pool.
PoolServerResponse(p, i, kind) ==
  /\ ServerResponse(p, i, kind, "v1")
  /\ UNCHANGED delivered
  /\ UNCHANGED sessionVars

\* The 30 s timer of request k fires.
RequestTimeout(p, k) ==
  /\ k \in 1..Len(reqs[p])
  /\ reqs[p][k].timer = "armed"
  /\ reqs' = [reqs EXCEPT ![p][k] = ReqAfterTimeout(@)]
  /\ responseHandlers' = [responseHandlers EXCEPT ![p] = HandlersAfterTimeout(p, k)]
  /\ IF reqs[p][k].outcome = "pending"
     THEN Continue(p, reqs[p][k].method, FALSE)
     ELSE NoContinue
  /\ UNCHANGED <<pool, initPromises, procRoot, spawned, process, killed, messageId, delivered,
                 callerVars>>
  /\ UNCHANGED <<hasHook, sessionVars, indexVars, callVars, readerVars, watchVars>>

\* state.process.on("exit"), registered by start(): state.process = null, nothing else.
ProcessExit(p) ==
  /\ process[p] = "running"
  /\ createState[p] # "none"
  /\ process' = [process EXCEPT ![p] = "null"]
  /\ UNCHANGED <<poolVars, killed, messageId, responseHandlers, reqs, written, delivered,
                 stopPhase, callerVars>>
  /\ UNCHANGED <<hookVars, sessionVars, indexVars, callVars, readerVars, watchVars>>

\* ------------------------------------------------------ the pool's system
Next ==
  \/ \E c \in Callers, r \in Roots : AcquireExisting(c, r)
  \/ \E c \in Callers, r \in Roots : AcquireJoin(c, r)
  \/ \E c \in Callers, r \in Roots : AcquireSpawn(c, r)
  \/ \E c \in Callers : InitiatorContinue(c)
  \/ \E c \in Callers : JoinerResolve(c)
  \/ \E c \in Callers : Release(c)
  \/ ShutdownCall
  \/ ShutdownResolve
  \/ \E p \in Pids, i \in Ids, kind \in {"result", "error"} : PoolServerResponse(p, i, kind)
  \/ \E p \in Pids, k \in Ids : RequestTimeout(p, k)
  \/ \E p \in Pids : GraceElapsed(p)
  \/ \E p \in Pids : ProcessExit(p)

Spec == Init /\ [][Next]_vars


\* ------------------------------------------------------ one client alone
\* A client made by createLSPClient({process}) outside the pool: client 1, with
\* its server process attached and nothing sent yet.
InitClient ==
  /\ pool = [r \in Roots |-> 0]
  /\ initPromises = [r \in Roots |-> 0]
  /\ refCount = [p \in Pids |-> 0]
  /\ createState = [p \in Pids |-> "none"]
  /\ procRoot = [p \in Pids |-> "-"]
  /\ spawned = 1
  /\ process = [p \in Pids |-> IF p = 1 THEN "running" ELSE "none"]
  /\ killed = [p \in Pids |-> FALSE]
  /\ messageId = [p \in Pids |-> 0]
  /\ responseHandlers = [p \in Pids |-> NoHandlers]
  /\ reqs = [p \in Pids |-> <<>>]
  /\ written = [p \in Pids |-> <<>>]
  /\ delivered = [p \in Pids |-> [i \in Ids |-> <<>>]]
  /\ stopPhase = [p \in Pids |-> "none"]
  /\ cpc = [c \in Callers |-> "idle"]
  /\ cpid = [c \in Callers |-> 0]
  /\ sdPc = "idle"
  /\ sdSet = {}
  /\ sdInit = {}
  /\ \E h \in BOOLEAN : hasHook = [p \in Pids |-> p = 1 /\ h]
  /\ hookPc = [p \in Pids |-> "none"]
  /\ NoSession
  /\ NoIndex
  /\ NoCall
  /\ NoWatch
  /\ NoReader

\* start() up to its await: the stdout / exit listeners, initialize().
ClientStart(p) ==
  /\ process[p] = "running"
  /\ createState[p] = "none"
  /\ createState' = [createState EXCEPT ![p] = "pending"]
  /\ SendRequestOn({p}, "initialize", Running)
  /\ UNCHANGED <<pool, initPromises, refCount, procRoot, spawned, process, killed, delivered,
                 stopPhase, callerVars>>
  /\ UNCHANGED <<hookVars, sessionVars, indexVars, callVars, readerVars, watchVars>>

\* A caller of the started client sends a request (findReferences, getHover, ...).
UserRequest(p, m) ==
  /\ createState[p] # "none"
  /\ CanSend(p)
  /\ SendRequestOn({p}, m, Running)
  /\ UNCHANGED <<poolVars, process, killed, delivered, stopPhase, callerVars>>
  /\ UNCHANGED <<hookVars, sessionVars, indexVars, callVars, readerVars, watchVars>>

\* An answer to the client, recorded as sent.
ClientServerResponse(p, i, kind, v) ==
  /\ ServerResponse(p, i, kind, v)
  /\ delivered' = [delivered EXCEPT ![p][i] =
                     IF Len(@) < 2 THEN Append(@, [kind |-> kind, val |-> v]) ELSE @]
  /\ UNCHANGED sessionVars

\* The postInitialize hook of the language settles: initialize() and start() return,
\* or the hook's failure rejects them.
HookSettles(p, ok) ==
  /\ hookPc[p] = "running"
  /\ hookPc' = [hookPc EXCEPT ![p] = IF ok THEN "done" ELSE "failed"]
  /\ createState' = [createState EXCEPT ![p] = IF ok THEN "resolved" ELSE "rejected"]
  /\ UNCHANGED <<pool, initPromises, refCount, procRoot, spawned, clientVars, callerVars,
                 hasHook, sessionVars, indexVars, callVars, readerVars, watchVars>>

NextClient ==
  \/ ClientStart(1)
  \/ \E ok \in BOOLEAN : HookSettles(1, ok)
  \/ UserRequest(1, "textDocument/hover")
  \/ \E i \in Ids, kind \in {"result", "error"}, v \in Payloads : ClientServerResponse(1, i, kind, v)
  \/ \E k \in Ids : RequestTimeout(1, k)
  \/ ProcessExit(1)

SpecClient == InitClient /\ [][NextClient]_vars


\* ----------------------------------------------- one started client: diagnostics
\* A diagnostic is a value with a range ("d1", "d2") or one without ("noRange").
DiagLists == {<<"d1">>, <<"d2">>, <<"d1", "noRange">>}
ServerRequestIds == {1}
ServerMethods == {"workspace/applyEdit", "workspace/configuration"}

\* params.diagnostics.filter((d) => d && d.range)
ValidDiagnostics(list) == SelectSeq(list, LAMBDA d : d # "noRange")

\* The state of client 1 after start() resolved: initialize answered, initialized sent.
StartedClient ==
  /\ pool = [r \in Roots |-> 0]
  /\ initPromises = [r \in Roots |-> 0]
  /\ refCount = [p \in Pids |-> 0]
  /\ createState = [p \in Pids |-> IF p = 1 THEN "resolved" ELSE "none"]
  /\ procRoot = [p \in Pids |-> "-"]
  /\ spawned = 1
  /\ process = [p \in Pids |-> IF p = 1 THEN "running" ELSE "none"]
  /\ killed = [p \in Pids |-> FALSE]
  /\ messageId = [p \in Pids |-> IF p = 1 THEN 1 ELSE 0]
  /\ responseHandlers = [p \in Pids |-> NoHandlers]
  /\ reqs = [p \in Pids |->
               IF p = 1
               THEN <<[id |-> 1, method |-> "initialize", timer |-> "cleared",
                       outcome |-> "result", val |-> "v1", nResp |-> 1, nTimeout |-> 0]>>
               ELSE <<>>]
  /\ written = [p \in Pids |->
                  IF p = 1 THEN <<Msg("initialize", 1), Msg("initialized", 0)>> ELSE <<>>]
  /\ delivered = [p \in Pids |-> [i \in Ids |->
                    IF p = 1 /\ i = 1 THEN <<[kind |-> "result", val |-> "v1"]>> ELSE <<>>]]
  /\ stopPhase = [p \in Pids |-> "none"]
  /\ cpc = [c \in Callers |-> "idle"]
  /\ cpid = [c \in Callers |-> 0]
  /\ sdPc = "idle"
  /\ sdSet = {}
  /\ sdInit = {}
  /\ hasHook = [p \in Pids |-> FALSE]
  /\ hookPc = [p \in Pids |-> "none"]

InitDiag == StartedClient /\ NoSession /\ NoIndex /\ NoCall /\ NoWatch /\ NoReader

\* Everything of the model outside the session and the requests of client 1.
restOfClient == <<poolVars, process, killed, stopPhase, callerVars, hookVars, indexVars, callVars, readerVars, watchVars>>

WaiterOnAnyUri(w, u, ds) ==
  IF w.listening
  THEN [w EXCEPT !.state = "resolved", !.val = ds, !.listening = FALSE,
                 !.timer = "cleared", !.nSettle = @ + 1]
  ELSE w

\* diagnosticsHandler of waitForDiagnostics, called with the emitted event:
\* if (params.uri === fileUri) { clearTimeout; off; resolve(params.diagnostics || []) }
WaiterOnDiagnostics(w, u, ds) ==
  IF w.listening /\ w.uri = u
  THEN [w EXCEPT !.state = "resolved", !.val = ds, !.listening = FALSE,
                 !.timer = "cleared", !.nSettle = @ + 1]
  ELSE w

\* handleMessage for a textDocument/publishDiagnostics notification: store the
\* valid diagnostics, emit "diagnostics" to the listeners.
PublishDiagnostics(u, list) ==
  /\ process[1] = "running"
  /\ diagnostics' = [diagnostics EXCEPT ![u] = ValidDiagnostics(list)]
  /\ published' = [published EXCEPT ![u] = list]
  /\ waiters' = [w \in DOMAIN waiters |->
                   [WaiterOnDiagnostics(waiters[w], u, ValidDiagnostics(list))
                      EXCEPT !.first = IF waiters[w].uri = u /\ @ = Absent THEN list ELSE @]]
  /\ UNCHANGED <<openDocuments, docWritten, serverRequests, pullUri, tools>>
  /\ UNCHANGED <<restOfClient, messageId, responseHandlers, reqs, written, delivered>>

\* waitForDiagnostics(fileUri, timeout): arm the timer, register the listener.
WaitForDiagnostics(u) ==
  /\ Len(waiters) < MaxWaiters
  /\ waiters' = Append(waiters, [uri |-> u, state |-> "waiting", val |-> Absent, listening |-> TRUE,
                                 timer |-> "armed", nSettle |-> 0, first |-> Absent])
  /\ UNCHANGED <<openDocuments, diagnostics, published, docWritten, serverRequests, pullUri, tools>>
  /\ UNCHANGED <<restOfClient, messageId, responseHandlers, reqs, written, delivered>>

\* The timeout callback of a waitForDiagnostics call: off(listener), reject.
WaitTimeout(w) ==
  /\ w \in DOMAIN waiters
  /\ waiters[w].timer = "armed"
  /\ waiters' = [waiters EXCEPT ![w] =
                   [@ EXCEPT !.timer = "fired", !.listening = FALSE, !.nSettle = @ + 1,
                             !.state = IF @ = "waiting" THEN "timedOut" ELSE @]]
  /\ UNCHANGED <<openDocuments, diagnostics, published, docWritten, serverRequests, pullUri, tools>>
  /\ UNCHANGED <<restOfClient, messageId, responseHandlers, reqs, written, delivered>>

\* pullDiagnostics(uri) up to its await: sendRequest("textDocument/diagnostic").
PullDiagnostics(u) ==
  /\ CanSend(1)
  /\ SendRequestOn({1}, "textDocument/diagnostic", Running)
  /\ pullUri' = [pullUri EXCEPT ![NextId(1)] = u]
  /\ UNCHANGED <<openDocuments, diagnostics, published, docWritten, waiters, serverRequests, tools>>
  /\ UNCHANGED <<restOfClient, delivered>>

\* pullDiagnostics after its await resolved: if (result && result.items) store them.
DiagnosticsAfterPull(i, kind, items) ==
  IF /\ responseHandlers[1][i] # 0
     /\ reqs[1][responseHandlers[1][i]].method = "textDocument/diagnostic"
     /\ reqs[1][responseHandlers[1][i]].outcome = "pending"
     /\ kind = "result"
     /\ items # Absent
  THEN [diagnostics EXCEPT ![pullUri[i]] = items]
  ELSE diagnostics

\* The server answers a request of the started client; a pullDiagnostics call
\* awaiting it resumes.
PullResponse(i, kind, items) ==
  /\ ServerResponse(1, i, kind, items)
  /\ diagnostics' = DiagnosticsAfterPull(i, kind, items)
  /\ UNCHANGED <<openDocuments, published, docWritten, waiters, serverRequests, pullUri, tools,
                 delivered>>

\* handleMessage for a message with `method` and `id` that is no response: it takes
\* the branch of notifications, which emits "message" and writes nothing.
ServerRequest(i, m) ==
  /\ process[1] = "running"
  /\ serverRequests' = serverRequests \cup {[id |-> i, method |-> m]}
  /\ UNCHANGED <<openDocuments, diagnostics, published, docWritten, waiters, pullUri, tools>>
  /\ UNCHANGED <<restOfClient, messageId, responseHandlers, reqs, written, delivered>>

\* The diagnostics store under push and pull.
NextDiag ==
  \/ \E u \in Uris, list \in DiagLists : PublishDiagnostics(u, list)
  \/ \E u \in Uris : PullDiagnostics(u)
  \/ \E i \in Ids, kind \in {"result", "error"}, items \in DiagLists \cup {Absent} :
       PullResponse(i, kind, items)
  \/ \E k \in Ids : RequestTimeout(1, k)
  \/ ProcessExit(1)

SpecDiag == InitDiag /\ [][NextDiag]_vars

\* The messages the server sends on its own: notifications and requests.
NextNotify ==
  \/ \E u \in Uris, list \in DiagLists : PublishDiagnostics(u, list)
  \/ \E u \in Uris : WaitForDiagnostics(u)
  \/ \E w \in 1..MaxWaiters : WaitTimeout(w)
  \/ \E i \in ServerRequestIds, m \in ServerMethods : ServerRequest(i, m)
  \/ ProcessExit(1)

SpecNotify == InitDiag /\ [][NextNotify]_vars


\* ------------------------------------------------- one started client: documents
Versions == 1..MaxVersion

Note(m, u, v) == [method |-> m, uri |-> u, version |-> v]

\* The session state the document operations act on.
Session == [open |-> openDocuments, diag |-> diagnostics]

\* openDocument(uri, text): sendNotification("textDocument/didOpen"), openDocuments.add(uri)
AfterOpen(st, u) == [st EXCEPT !.open = @ \cup {u}]

AfterCloseKeepsOpen(st, u) == [st EXCEPT !.diag = [@ EXCEPT ![u] = Absent]]

\* closeDocument(uri): sendNotification("textDocument/didClose"),
\* state.diagnostics.delete(uri), openDocuments.delete(uri)
AfterClose(st, u) == [st EXCEPT !.open = @ \ {u}, !.diag = [@ EXCEPT ![u] = Absent]]

\* sendNotification -> sendMessage writes while state.process is set and throws
\* otherwise, before the caller has changed anything.
CanNotify == process[1] = "running" /\ Len(docWritten) < MaxNotes

\* openDocument(uri, text, languageId)
OpenDocument(u) ==
  /\ CanNotify
  /\ docWritten' = Append(docWritten, Note("textDocument/didOpen", u, 1))
  /\ openDocuments' = AfterOpen(Session, u).open
  /\ diagnostics' = AfterOpen(Session, u).diag
  /\ UNCHANGED <<published, waiters, serverRequests, pullUri, tools>>
  /\ UNCHANGED <<restOfClient, messageId, responseHandlers, reqs, written, delivered>>

\* closeDocument(uri)
CloseDocument(u) ==
  /\ CanNotify
  /\ docWritten' = Append(docWritten, Note("textDocument/didClose", u, 0))
  /\ openDocuments' = AfterClose(Session, u).open
  /\ diagnostics' = AfterClose(Session, u).diag
  /\ UNCHANGED <<published, waiters, serverRequests, pullUri, tools>>
  /\ UNCHANGED <<restOfClient, messageId, responseHandlers, reqs, written, delivered>>

\* updateDocument(uri, text, version): the version is the caller's argument.
UpdateDocument(u, v) ==
  /\ CanNotify
  /\ docWritten' = Append(docWritten, Note("textDocument/didChange", u, v))
  /\ UNCHANGED <<openDocuments, diagnostics, published, waiters, serverRequests, pullUri, tools>>
  /\ UNCHANGED <<restOfClient, messageId, responseHandlers, reqs, written, delivered>>

NextDocs ==
  \/ \E u \in Uris : OpenDocument(u)
  \/ \E u \in Uris : CloseDocument(u)
  \/ \E u \in Uris, v \in Versions : UpdateDocument(u, v)
  \/ \E u \in Uris, list \in DiagLists : PublishDiagnostics(u, list)
  \/ ProcessExit(1)

SpecDocs == InitDiag /\ [][NextDocs]_vars


\* ------------------------------------------ tool operations on the started client
ToolKinds == {"withLSPOperation", "getSignatureHelp", "findReferences", "renameSymbol"}
UriSeq == <<"u1", "u2">>
Results == {"v1", "null"}

SeqRange(q) == {q[i] : i \in DOMAIN q}

\* findProjectFiles(root) without the target file
OtherFiles(u) == SelectSeq(UriSeq, LAMBDA x : x # u)

\* The documents a tool opens before its settling delay, in order.
ToolOpens(kind, u) == IF kind = "renameSymbol" THEN OtherFiles(u) \o <<u>> ELSE <<u>>

\* The client request a tool awaits after the delay.
ToolMethod(kind) ==
  CASE kind = "withLSPOperation" -> "textDocument/hover"
    [] kind = "getSignatureHelp" -> "textDocument/signatureHelp"
    [] kind = "findReferences" -> "textDocument/references"
    [] kind = "renameSymbol" -> "textDocument/prepareRename"

\* The documents a tool closes when its last request has settled (ok: with a
\* result that is not null): get_signature_help in its finally block, rename_symbol
\* after a successful rename only, withLSPOperation and find_references never.
ToolCloses(kind, u, ok) ==
  CASE kind = "getSignatureHelp" -> <<u>>
    [] kind = "renameSymbol" -> IF ok THEN <<u>> \o OtherFiles(u) ELSE <<>>
    [] OTHER -> <<>>

OpenNotes(us) == [i \in DOMAIN us |-> Note("textDocument/didOpen", us[i], 1)]
CloseNotes(us) == [i \in DOMAIN us |-> Note("textDocument/didClose", us[i], 0)]

\* client.openDocument on each uri of us
OpenAll(us) ==
  /\ docWritten' = docWritten \o OpenNotes(us)
  /\ openDocuments' = openDocuments \cup SeqRange(us)
  /\ UNCHANGED diagnostics

\* client.closeDocument on each uri of us; with state.process null the first call
\* throws and nothing is closed.
CloseAll(us) ==
  IF process[1] = "running"
  THEN /\ docWritten' = docWritten \o CloseNotes(us)
       /\ openDocuments' = openDocuments \ SeqRange(us)
       /\ diagnostics' = [x \in Uris |-> IF x \in SeqRange(us) THEN Absent ELSE diagnostics[x]]
  ELSE UNCHANGED <<docWritten, openDocuments, diagnostics>>

Settled(t) == tools[t].req # 0 /\ reqs[1][tools[t].req].outcome # "pending"
Succeeded(t) == reqs[1][tools[t].req].outcome = "result" /\ reqs[1][tools[t].req].val # "null"

\* The error responses of the server, by their message, and their codes.
ErrorMessages == {"Method not found", "rename is not supported", "Internal error"}
ErrorCode(message) == IF message = "Internal error" THEN 0 - 32603 ELSE 0 - 32601

\* The rejection of sendRequest is a new Error of the formatted message, without
\* a code: the catch of client.rename sees the text only.
MethodNotFound(r) == r.outcome = "error" /\ r.val = "Method not found"

\* client.rename once its request r has settled: the edit, null (also for an
\* error that reads as method not found), or the error thrown again.
ClientRename(r) ==
  IF r.outcome = "result" THEN (IF r.val # "null" THEN "edit" ELSE "null")
  ELSE IF MethodNotFound(r) THEN "null"
  ELSE "throws"

\* What rename_symbol returns once client.rename has settled with request r:
\* its own catch makes the same test on what client.rename throws.
RenameResult(r) ==
  IF ClientRename(r) = "throws"
  THEN IF MethodNotFound(r) THEN "LSP server doesn't support rename operation"
       ELSE IF r.outcome = "error" THEN r.val
       ELSE "Request failed"
  ELSE IF ClientRename(r) = "null" THEN "No changes from LSP rename operation"
  ELSE "ok"

\* A tool operation up to its settling delay: it opens its documents. With
\* state.process null openDocument throws and the operation fails at once.
ToolStart(kind, u) ==
  /\ Len(tools) < MaxTools
  /\ IF process[1] = "running"
     THEN /\ Len(docWritten) + Len(ToolOpens(kind, u)) <= MaxNotes
          /\ OpenAll(ToolOpens(kind, u))
          /\ tools' = Append(tools, [kind |-> kind, uri |-> u, pc |-> "waiting", req |-> 0,
                                     opened |-> SeqRange(ToolOpens(kind, u)), closed |-> {},
                                     result |-> "-"])
     ELSE /\ UNCHANGED <<docWritten, openDocuments, diagnostics>>
          /\ tools' = Append(tools, [kind |-> kind, uri |-> u, pc |-> "returned", req |-> 0,
                                     opened |-> {}, closed |-> {}, result |-> "Request failed"])
  /\ UNCHANGED <<published, waiters, serverRequests, pullUri>>
  /\ UNCHANGED <<restOfClient, messageId, responseHandlers, reqs, written, delivered>>

\* The delay has passed: the tool calls the client (getHover, getSignatureHelp,
\* findReferences, prepareRename) and awaits the request.
ToolWaitElapsed(t) ==
  /\ t \in DOMAIN tools
  /\ tools[t].pc = "waiting"
  /\ CanSend(1)
  /\ SendRequestOn({1}, ToolMethod(tools[t].kind), Running)
  /\ tools' = [tools EXCEPT ![t].req = Len(reqs[1]) + 1,
                            ![t].pc = IF tools[t].kind = "renameSymbol" THEN "preparing" ELSE "operating"]
  /\ UNCHANGED <<openDocuments, diagnostics, published, docWritten, waiters, serverRequests, pullUri>>
  /\ UNCHANGED <<restOfClient, delivered>>

\* rename_symbol after prepareRename: null (also for a failed request, which
\* client.prepareRename turns into null) returns an error; otherwise client.rename.
ToolPrepared(t) ==
  /\ t \in DOMAIN tools
  /\ tools[t].pc = "preparing"
  /\ Settled(t)
  /\ IF Succeeded(t)
     THEN /\ CanSend(1)
          /\ SendRequestOn({1}, "textDocument/rename", Running)
          /\ tools' = [tools EXCEPT ![t].req = Len(reqs[1]) + 1, ![t].pc = "operating"]
     ELSE /\ tools' = [tools EXCEPT ![t].pc = "returned", ![t].result = "Cannot rename symbol"]
          /\ UNCHANGED <<messageId, responseHandlers, reqs, written>>
  /\ UNCHANGED <<openDocuments, diagnostics, published, docWritten, waiters, serverRequests, pullUri>>
  /\ UNCHANGED <<restOfClient, delivered>>

\* The awaited request of a tool has settled: the tool closes what it closes on
\* this path and returns. rename_symbol first awaits applyWorkspaceEdit.
ToolResume(t) ==
  /\ t \in DOMAIN tools
  /\ \/ tools[t].pc = "operating" /\ Settled(t)
     \/ tools[t].pc = "applying"
  /\ IF tools[t].kind = "renameSymbol" /\ tools[t].pc = "operating" /\ Succeeded(t)
     THEN /\ tools' = [tools EXCEPT ![t].pc = "applying"]
          /\ UNCHANGED <<docWritten, openDocuments, diagnostics>>
     ELSE LET us == ToolCloses(tools[t].kind, tools[t].uri, Succeeded(t)) IN
          /\ Len(docWritten) + Len(us) <= MaxNotes
          /\ CloseAll(us)
          /\ tools' = [tools EXCEPT ![t].pc = "returned",
                                    ![t].closed = IF process[1] = "running" THEN SeqRange(us) ELSE {},
                                    ![t].result = IF tools[t].kind # "renameSymbol" THEN "-"
                                                  ELSE IF tools[t].pc = "applying" THEN "ok"
                                                  ELSE RenameResult(reqs[1][tools[t].req])]
  /\ UNCHANGED <<published, waiters, serverRequests, pullUri>>
  /\ UNCHANGED <<restOfClient, messageId, responseHandlers, reqs, written, delivered>>

\* withLSPOperation: the timeout promise wins the race while the operation is pending.
ToolRaceTimeout(t) ==
  /\ t \in DOMAIN tools
  /\ tools[t].kind = "withLSPOperation"
  /\ tools[t].pc = "operating"
  /\ tools' = [tools EXCEPT ![t].pc = "returned"]
  /\ UNCHANGED <<openDocuments, diagnostics, published, docWritten, waiters, serverRequests, pullUri>>
  /\ UNCHANGED <<restOfClient, messageId, responseHandlers, reqs, written, delivered>>

\* An answer to the started client while tools use it.
ToolServerResponse(i, kind, v) ==
  /\ ServerResponse(1, i, kind, v)
  /\ UNCHANGED <<sessionVars, delivered>>

NextTools ==
  \/ \E kind \in ToolKinds, u \in Uris : ToolStart(kind, u)
  \/ \E t \in 1..MaxTools : ToolWaitElapsed(t)
  \/ \E t \in 1..MaxTools : ToolPrepared(t)
  \/ \E t \in 1..MaxTools : ToolResume(t)
  \/ \E t \in 1..MaxTools : ToolRaceTimeout(t)
  \/ \E i \in Ids, v \in Results : ToolServerResponse(i, "result", v)
  \/ \E i \in Ids, v \in ErrorMessages : ToolServerResponse(i, "error", v)
  \/ \E k \in Ids : RequestTimeout(1, k)
  \/ ProcessExit(1)

SpecTools == InitDiag /\ [][NextTools]_vars


\* ------------------------------------------------------------ the symbol index

\* resolve(state.rootPath, filePath)
Resolve(p) == IF p = "b.ts" THEN "/r/b.ts" ELSE "/r/a.ts"

\* pathToFileURL(absolutePath).toString()
PathToFileURL(a) == IF a = "/r/b.ts" THEN "file:///r/b.ts" ELSE "file:///r/a.ts"

UriOfPath(p) == PathToFileURL(Resolve(p))

\* A Range of the protocol: start and end Position (line, character).
Range(sl, sc, el, ec) ==
  [start |-> [line |-> sl, character |-> sc], end |-> [line |-> el, character |-> ec]]

\* Where the declarations of the modelled files are: a class over lines 0..4,
\* a method inside it, a function over lines 0..2.
RangeOf(k) ==
  IF k = "class" THEN Range(0, 0, 4, 1)
  ELSE IF k = "method" THEN Range(1, 2, 3, 3)
  ELSE Range(0, 0, 2, 1)

\* A SymbolEntry without children, as convertSymbols builds it.
SymbolEntry(n, k, u, c) ==
  [name |-> n, kind |-> k, uri |-> u, range |-> RangeOf(k), container |-> c,
   isExternal |-> FALSE, sourceLibrary |-> "", children |-> <<>>]

\* entry.children = convertSymbols(doc.children, uri, doc.name)
WithChildren(e, children) == [e EXCEPT !.children = children]

\* What the language server may return for the document symbols of a file, after
\* convertSymbols: a DocumentSymbol tree (a class with a method, or one function),
\* whose locations get the uri of the file, or a flat SymbolInformation list, whose
\* locations are the server's (here: an entry located in the other file).
SymbolResults(u) ==
  { << WithChildren(SymbolEntry("Foo", "class", u, ""),
                    << SymbolEntry("bar", "method", u, "Foo") >>) >>,
    << SymbolEntry("bar", "function", u, "") >>,
    << SymbolEntry("Foo", "class", CHOOSE x \in FileUris : x # u, "bar") >> }

\* The order in which addToIndex visits a symbol list: a symbol, then its children.
RECURSIVE Flatten(_)
Flatten(q) ==
  IF q = <<>> THEN <<>>
  ELSE <<Head(q)>> \o Flatten(Head(q).children) \o Flatten(Tail(q))

ClearNothing(map, uri) == map

\* clearFromMap of clearFileFromIndices: filter every list, delete the keys whose
\* list becomes empty (an absent key is the empty list here).
ClearFromMap(map, uri) ==
  [key \in DOMAIN map |-> SelectSeq(map[key], LAMBDA e : e.uri # uri)]

\* addToIndex over a flattened symbol list, for the index keyed by `field`;
\* the container index takes only the symbols that have a containerName.
AddToIndex(map, entries, field) ==
  [key \in DOMAIN map |-> map[key] \o SelectSeq(entries, LAMBDA e : e[field] = key)]

\* updateIndices(state, symbols, uri), for one of the three indices
UpdateIndex(map, symbols, uri, field) ==
  AddToIndex(ClearFromMap(map, uri), Flatten(symbols), field)

IndexFrame == UNCHANGED <<poolVars, clientVars, callerVars, hookVars, sessionVars, callVars, readerVars, watchVars>>

Fits(map) == \A key \in DOMAIN map : Len(map[key]) <= MaxEntries

\* indexFile(filePath) whose loadCachedSymbols finds a cache entry: the record,
\* the indices and the watcher are set in one run.
IndexFileFromCache(p, symbols) ==
  /\ indexing[p] = "none"
  /\ fileIndex' = [fileIndex EXCEPT ![UriOfPath(p)] = [present |-> TRUE, symbols |-> symbols]]
  /\ symbolIndex' = UpdateIndex(symbolIndex, symbols, UriOfPath(p), "name")
  /\ kindIndex' = UpdateIndex(kindIndex, symbols, UriOfPath(p), "kind")
  /\ containerIndex' = UpdateIndex(containerIndex, symbols, UriOfPath(p), "container")
  /\ Fits(symbolIndex') /\ Fits(kindIndex') /\ Fits(containerIndex')
  /\ fileWatchers' = [fileWatchers EXCEPT ![Resolve(p)] = IF @ = "-" THEN p ELSE @]
  /\ lastIndexOp' = [op |-> "index", path |-> p]
  /\ UNCHANGED indexing
  /\ IndexFrame

\* indexFile(filePath) without a cache entry, up to its awaits: readFile, then the
\* document symbols of the language server.
IndexFileStart(p) ==
  /\ indexing[p] = "none"
  /\ indexing' = [indexing EXCEPT ![p] = "awaitSymbols"]
  /\ lastIndexOp' = [op |-> "index", path |-> p]
  /\ UNCHANGED <<fileIndex, symbolIndex, kindIndex, containerIndex, fileWatchers>>
  /\ IndexFrame

\* The symbols arrived: fileIndex.set, updateIndices, then await cacheSymbolsFromIndex.
IndexFileSymbols(p, symbols) ==
  /\ indexing[p] = "awaitSymbols"
  /\ fileIndex' = [fileIndex EXCEPT ![UriOfPath(p)] = [present |-> TRUE, symbols |-> symbols]]
  /\ symbolIndex' = UpdateIndex(symbolIndex, symbols, UriOfPath(p), "name")
  /\ kindIndex' = UpdateIndex(kindIndex, symbols, UriOfPath(p), "kind")
  /\ containerIndex' = UpdateIndex(containerIndex, symbols, UriOfPath(p), "container")
  /\ Fits(symbolIndex') /\ Fits(kindIndex') /\ Fits(containerIndex')
  /\ indexing' = [indexing EXCEPT ![p] = "caching"]
  /\ lastIndexOp' = [op |-> "index", path |-> p]
  /\ UNCHANGED fileWatchers
  /\ IndexFrame

\* No symbols, or readFile / the request failed: indexError, nothing stored.
IndexFileFails(p) ==
  /\ indexing[p] = "awaitSymbols"
  /\ indexing' = [indexing EXCEPT ![p] = "none"]
  /\ lastIndexOp' = [op |-> "index", path |-> p]
  /\ UNCHANGED <<fileIndex, symbolIndex, kindIndex, containerIndex, fileWatchers>>
  /\ IndexFrame

\* The cache was written: watchFile(filePath), stats, "fileIndexed".
IndexFileFinish(p) ==
  /\ indexing[p] = "caching"
  /\ indexing' = [indexing EXCEPT ![p] = "none"]
  /\ fileWatchers' = [fileWatchers EXCEPT ![Resolve(p)] = IF @ = "-" THEN p ELSE @]
  /\ lastIndexOp' = [op |-> "index", path |-> p]
  /\ UNCHANGED <<fileIndex, symbolIndex, kindIndex, containerIndex>>
  /\ IndexFrame

\* removeFileFromIndex(filePath)
RemoveFileFromIndex(p) ==
  /\ symbolIndex' = ClearFromMap(symbolIndex, UriOfPath(p))
  /\ kindIndex' = ClearFromMap(kindIndex, UriOfPath(p))
  /\ containerIndex' = ClearFromMap(containerIndex, UriOfPath(p))
  /\ fileIndex' = [fileIndex EXCEPT ![UriOfPath(p)] = NoRecord]
  /\ fileWatchers' = [fileWatchers EXCEPT ![Resolve(p)] = "-"]
  /\ lastIndexOp' = [op |-> "remove", path |-> p]
  /\ UNCHANGED indexing
  /\ IndexFrame

\* clearIndex(): every watcher is closed and every map cleared.
ClearIndex ==
  /\ fileIndex' = [u \in IndexedUris |-> NoRecord]
  /\ symbolIndex' = [n \in Names |-> <<>>]
  /\ kindIndex' = [k \in Kinds |-> <<>>]
  /\ containerIndex' = [n \in Names |-> <<>>]
  /\ fileWatchers' = [a \in AbsPaths |-> "-"]
  /\ lastIndexOp' = [op |-> "clear", path |-> "-"]
  /\ UNCHANGED indexing
  /\ IndexFrame

\* extractLibraryName(uri)
ExtractLibraryName(u) ==
  IF u = "file:///r/node_modules/lib/index.d.ts" THEN "lib" ELSE "unknown"

\* markSymbolsAsExternal(symbols, libraryName)
RECURSIVE MarkSymbolsAsExternal(_, _)
MarkSymbolsAsExternal(symbols, lib) ==
  [i \in 1..Len(symbols) |->
     [symbols[i] EXCEPT !.isExternal = TRUE, !.sourceLibrary = lib,
                        !.children = MarkSymbolsAsExternal(symbols[i].children, lib)]]

\* What indexExternalLibraries found: the file of the library with its symbols.
ExternalResults ==
  UNION { { [uri |-> u, symbols |-> q] :
            q \in { << WithChildren(SymbolEntry("Foo", "class", u, ""),
                                    << SymbolEntry("bar", "method", u, "Foo") >>) >>,
                    << SymbolEntry("bar", "function", u, "") >> } } :
          u \in ExternalUris }

\* indexExternalLibrariesForState after its await: the record of every file of
\* the result is set and its marked symbols are added with addSymbolToIndices.
IndexExternalLibrariesForState(file) ==
  LET externalSymbols == MarkSymbolsAsExternal(file.symbols, ExtractLibraryName(file.uri)) IN
  /\ fileIndex' = [fileIndex EXCEPT ![file.uri] = [present |-> TRUE, symbols |-> externalSymbols]]
  /\ symbolIndex' = AddToIndex(symbolIndex, Flatten(externalSymbols), "name")
  /\ kindIndex' = AddToIndex(kindIndex, Flatten(externalSymbols), "kind")
  /\ containerIndex' = AddToIndex(containerIndex, Flatten(externalSymbols), "container")
  /\ Fits(symbolIndex') /\ Fits(kindIndex') /\ Fits(containerIndex')
  /\ lastIndexOp' = [op |-> "external", path |-> "-"]
  /\ UNCHANGED <<fileWatchers, indexing>>
  /\ IndexFrame

\* The watcher of a file reports "rename": removeFileFromIndex with the path the
\* watcher was registered for.
WatcherRename(a) ==
  /\ fileWatchers[a] # "-"
  /\ RemoveFileFromIndex(fileWatchers[a])

NextIndex ==
  \/ \E p \in Paths : \E symbols \in SymbolResults(UriOfPath(p)) : IndexFileFromCache(p, symbols)
  \/ \E p \in Paths : IndexFileStart(p)
  \/ \E p \in Paths : \E symbols \in SymbolResults(UriOfPath(p)) : IndexFileSymbols(p, symbols)
  \/ \E p \in Paths : IndexFileFails(p)
  \/ \E p \in Paths : IndexFileFinish(p)
  \/ \E p \in Paths : RemoveFileFromIndex(p)
  \/ \E a \in AbsPaths : WatcherRename(a)
  \/ ClearIndex
  \/ \E file \in ExternalResults : IndexExternalLibrariesForState(file)

SpecIndex == InitDiag /\ [][NextIndex]_vars

\* ------------------------------------------------------------ querySymbols

\* The characters of the names that are indexed or asked for.
Chars(s) ==
  CASE s = "Foo" -> <<"F", "o", "o">>
    [] s = "foo" -> <<"f", "o", "o">>
    [] s = "fooBar" -> <<"f", "o", "o", "B", "a", "r">>
    [] s = "bar" -> <<"b", "a", "r">>
    [] s = "ar" -> <<"a", "r">>
    [] OTHER -> <<"x">>

\* String.prototype.toLowerCase
ToLowerCase(w) ==
  [i \in 1..Len(w) |-> IF w[i] = "F" THEN "f" ELSE IF w[i] = "B" THEN "b" ELSE w[i]]

\* String.prototype.includes
Includes(w, part) ==
  \E i \in 0..(Len(w) - Len(part)) : SubSeq(w, i + 1, i + Len(part)) = part

\* The keys of the name index, and the uris of the file index, in the order the
\* Map iterates them.
NameOrder == <<"Foo", "bar", "fooBar">>
UriOrder == <<"file:///r/a.ts", "file:///r/b.ts", "file:///r/node_modules/lib/index.d.ts">>

\* map.get(key) || []
Get(map, key) == IF key \in DOMAIN map THEN map[key] ELSE <<>>

RECURSIVE ConcatLists(_, _)
ConcatLists(map, keys) ==
  IF keys = <<>> THEN <<>> ELSE Get(map, Head(keys)) \o ConcatLists(map, Tail(keys))

\* A SymbolQuery; "" is a string left out, <<>> a kind left out, "unset" a flag
\* left out.
Flags == {"unset", "true", "false"}
Queries ==
  [name : {"", "Foo", "foo", "ar", "x"},
   kind : {<<>>, <<"class">>, <<"method", "function">>},
   containerName : {"", "Foo"},
   file : {"", "./a.ts"},
   includeChildren : Flags,
   includeExternal : Flags,
   onlyExternal : {"unset", "true"},
   sourceLibrary : {"", "lib"}]

\* querySymbols, the partial matches: the lists of the names that contain the
\* name asked for, whatever the case.
PartialMatches(q) ==
  ConcatLists(symbolIndex,
              SelectSeq(NameOrder, LAMBDA n :
                Includes(ToLowerCase(Chars(n)), ToLowerCase(Chars(q.name)))))

NameResultsWithPartial(q) == Get(symbolIndex, q.name) \o PartialMatches(q)

\* querySymbols, the name search: the list of the name index, and the partial
\* matches when that list is empty.
NameResults(q) ==
  IF Len(Get(symbolIndex, q.name)) = 0 THEN PartialMatches(q) ELSE Get(symbolIndex, q.name)

\* querySymbols, "return all symbols": the symbols of every record, with their
\* descendants unless includeChildren is false.
AllSymbols(q) ==
  ConcatLists([u \in IndexedUris |->
                 IF q.includeChildren # "false" THEN Flatten(fileIndex[u].symbols)
                 ELSE fileIndex[u].symbols],
              UriOrder)

\* The descendants of the entries of a list, entry by entry.
RECURSIVE Descendants(_)
Descendants(list) ==
  IF list = <<>> THEN <<>>
  ELSE Flatten(Head(list).children) \o Descendants(Tail(list))

\* querySymbols(state, query)
QuerySymbols(q) ==
  LET first ==
        IF q.name # "" THEN NameResults(q)
        ELSE IF q.kind # <<>> THEN ConcatLists(kindIndex, q.kind)
        ELSE IF q.containerName # "" THEN Get(containerIndex, q.containerName)
        ELSE AllSymbols(q)
      byFile ==
        IF q.file # "" THEN SelectSeq(first, LAMBDA s : s.uri = UriOfPath(q.file)) ELSE first
      byContainer ==
        IF q.containerName # "" /\ q.name # ""
        THEN SelectSeq(byFile, LAMBDA s : s.container = q.containerName) ELSE byFile
      byKind ==
        IF q.name # "" /\ q.kind # <<>>
        THEN SelectSeq(byContainer, LAMBDA s : \E i \in 1..Len(q.kind) : q.kind[i] = s.kind)
        ELSE byContainer
      byExternal ==
        IF q.onlyExternal = "true" THEN SelectSeq(byKind, LAMBDA s : s.isExternal)
        ELSE IF q.includeExternal = "false" THEN SelectSeq(byKind, LAMBDA s : ~s.isExternal)
        ELSE byKind
      byLibrary ==
        IF q.sourceLibrary # ""
        THEN SelectSeq(byExternal, LAMBDA s : s.sourceLibrary = q.sourceLibrary)
        ELSE byExternal IN
  IF q.includeChildren = "true" THEN byLibrary \o Descendants(byLibrary) ELSE byLibrary

\* What the files of the queried project declare: the trees above, and a function
\* whose name contains the name of the class.
QueryTrees(u) == SymbolResults(u) \cup { << SymbolEntry("fooBar", "function", u, "") >> }

\* The index after indexFile("a.ts"), indexFile("b.ts") and the indexing of the
\* external library ran to their ends, each of them made or not (<<>>: not made).
IndexBuilt(ra, rb, rx) ==
  LET ua == "file:///r/a.ts"
      ub == "file:///r/b.ts"
      ux == "file:///r/node_modules/lib/index.d.ts"
      mx == MarkSymbolsAsExternal(rx, ExtractLibraryName(ux))
      Record(r) == IF r = <<>> THEN NoRecord ELSE [present |-> TRUE, symbols |-> r]
      Built(map, field) ==
        AddToIndex(UpdateIndex(UpdateIndex(map, ra, ua, field), rb, ub, field),
                   Flatten(mx), field) IN
  /\ fileIndex = [u \in IndexedUris |->
                    IF u = ua THEN Record(ra) ELSE IF u = ub THEN Record(rb) ELSE Record(mx)]
  /\ symbolIndex = Built([n \in Names |-> <<>>], "name")
  /\ kindIndex = Built([k \in Kinds |-> <<>>], "kind")
  /\ containerIndex = Built([n \in Names |-> <<>>], "container")
  /\ fileWatchers = [a \in AbsPaths |->
                       IF a = "/r/a.ts" /\ ra # <<>> THEN "a.ts"
                       ELSE IF a = "/r/b.ts" /\ rb # <<>> THEN "b.ts" ELSE "-"]
  /\ indexing = [p \in Paths |-> "none"]
  /\ lastIndexOp = [op |-> IF rx = <<>> THEN "index" ELSE "external", path |-> "-"]

InitQuery ==
  /\ StartedClient /\ NoSession
  /\ \E ra \in {<<>>} \cup QueryTrees("file:///r/a.ts") :
     \E rb \in {<<>>} \cup QueryTrees("file:///r/b.ts") :
     \E file \in ExternalResults : \E rx \in {<<>>, file.symbols} :
       IndexBuilt(ra, rb, rx)
  /\ \E q \in Queries : call = [op |-> "querySymbols", state |-> "called", query |-> q]
  /\ ret = <<>>
  /\ NoWatch
  /\ NoReader

\* querySymbols returns.
QueryReturns ==
  /\ call.op = "querySymbols" /\ call.state = "called"
  /\ ret' = QuerySymbols(call.query)
  /\ call' = [call EXCEPT !.state = "returned"]
  /\ UNCHANGED <<poolVars, clientVars, callerVars, hookVars, sessionVars, indexVars,
                 watchVars, readerVars>>

NextQuery == QueryReturns

SpecQuery == InitQuery /\ [][NextQuery]_vars

\* ------------------------------------------------------------ getSymbolAtPosition

\* positionInRange(position, range)
PositionInRange(position, range) ==
  IF position.line < range.start.line \/ position.line > range.end.line THEN FALSE
  ELSE IF position.line = range.start.line /\ position.character < range.start.character
    THEN FALSE
  ELSE IF position.line = range.end.line /\ position.character > range.end.character
    THEN FALSE
  ELSE TRUE

\* findSymbol that returns the first symbol at the position without a look at
\* its children.
RECURSIVE FindSymbolShallow(_, _)
FindSymbolShallow(symbols, position) ==
  IF symbols = <<>> THEN <<>>
  ELSE IF PositionInRange(position, Head(symbols).range) THEN <<Head(symbols)>>
  ELSE FindSymbolShallow(Tail(symbols), position)

\* findSymbol of getSymbolAtPosition; <<>> is null, <<s>> the symbol s.
RECURSIVE FindSymbol(_, _)
FindSymbol(symbols, position) ==
  IF symbols = <<>> THEN <<>>
  ELSE IF PositionInRange(position, Head(symbols).range)
    THEN (IF FindSymbol(Head(symbols).children, position) # <<>>
          THEN FindSymbol(Head(symbols).children, position)
          ELSE <<Head(symbols)>>)
  ELSE FindSymbol(Tail(symbols), position)

\* getFileSymbols(state, filePath)
GetFileSymbols(p) ==
  IF fileIndex[UriOfPath(p)].present THEN fileIndex[UriOfPath(p)].symbols ELSE <<>>

\* getSymbolAtPosition(state, filePath, position)
GetSymbolAtPosition(p, position) == FindSymbol(GetFileSymbols(p), position)

MaxLine == 5
MaxCharacter == 3
Positions == [line : 0..MaxLine, character : 0..MaxCharacter]

At(e, range) == [e EXCEPT !.range = range]

\* The document symbols of a.ts for the position lookups: the trees above, the
\* class and its method as a flat SymbolInformation list, a function followed by
\* a class with a method, and a method that holds a function.
PositionTrees ==
  LET u == "file:///r/a.ts" IN
  SymbolResults(u) \cup
  { << SymbolEntry("Foo", "class", u, ""), SymbolEntry("bar", "method", u, "Foo") >>,
    << SymbolEntry("bar", "function", u, ""),
       WithChildren(At(SymbolEntry("Foo", "class", u, ""), Range(3, 0, 5, 1)),
                    << At(SymbolEntry("bar", "method", u, "Foo"), Range(4, 1, 4, 3)) >>) >>,
    << WithChildren(SymbolEntry("Foo", "class", u, ""),
         << WithChildren(SymbolEntry("bar", "method", u, "Foo"),
              << At(SymbolEntry("fooBar", "function", u, "bar"), Range(2, 0, 2, 2)) >>) >>) >> }

InitPosition ==
  /\ StartedClient /\ NoSession
  /\ \E ra \in {<<>>} \cup PositionTrees : IndexBuilt(ra, <<>>, <<>>)
  /\ \E p \in Paths : \E position \in Positions :
       call = [op |-> "getSymbolAtPosition", state |-> "called", path |-> p,
               position |-> position]
  /\ ret = <<>>
  /\ NoWatch
  /\ NoReader

\* getSymbolAtPosition returns.
SymbolAtReturns ==
  /\ call.op = "getSymbolAtPosition" /\ call.state = "called"
  /\ ret' = GetSymbolAtPosition(call.path, call.position)
  /\ call' = [call EXCEPT !.state = "returned"]
  /\ UNCHANGED <<poolVars, clientVars, callerVars, hookVars, sessionVars, indexVars,
                 watchVars, readerVars>>

NextPosition == SymbolAtReturns

SpecPosition == InitPosition /\ [][NextPosition]_vars

\* ------------------------------------------------------------ cache and watcher

\* The document of the session that stands for a file.
DocOf(a) == IF a = "/r/b.ts" THEN "u2" ELSE "u1"

\* The document symbols of a file with the given content, after convertSymbols:
\* the first content declares a class with a method, every other one a function.
\* A server that answers with DocumentSymbols gets the uri of the file; one that
\* answers with SymbolInformation (fl) keeps its own locations.
SymbolsOf(c, u, fl) ==
  LET o == CHOOSE x \in FileUris : x # u IN
  IF fl
  THEN (IF c = 1
        THEN << SymbolEntry("Foo", "class", o, ""), SymbolEntry("bar", "method", o, "Foo") >>
        ELSE << SymbolEntry("bar", "function", o, "") >>)
  ELSE (IF c = 1
        THEN << WithChildren(SymbolEntry("Foo", "class", u, ""),
                             << SymbolEntry("bar", "method", u, "Foo") >>) >>
        ELSE << SymbolEntry("bar", "function", u, "") >>)

\* loadCachedSymbols(state, absolutePath): the entry of the file is a hit iff its
\* hash is the hash of the file on disk.
CacheHit(a) == cache[a].hash # 0 /\ cache[a].hash = disk[a]

\* The maps of the index as one value, for the files one run indexes in turn.
IndexState ==
  [fileIndex |-> fileIndex, symbolIndex |-> symbolIndex, kindIndex |-> kindIndex,
   containerIndex |-> containerIndex, fileWatchers |-> fileWatchers]

\* indexFile(filePath) with a cache hit, lines 377-387: the record, updateIndices,
\* watchFile.
IndexedFromCache(st, p) ==
  LET u == UriOfPath(p)
      cachedSymbols == cache[Resolve(p)].symbols IN
  [fileIndex |-> [st.fileIndex EXCEPT ![u] = [present |-> TRUE, symbols |-> cachedSymbols]],
   symbolIndex |-> UpdateIndex(st.symbolIndex, cachedSymbols, u, "name"),
   kindIndex |-> UpdateIndex(st.kindIndex, cachedSymbols, u, "kind"),
   containerIndex |-> UpdateIndex(st.containerIndex, cachedSymbols, u, "container"),
   fileWatchers |-> [st.fileWatchers EXCEPT ![Resolve(p)] = IF @ = "-" THEN p ELSE @]]

\* indexFiles(state, files) up to its await, for the files that have a cache
\* hit: their indexFile runs to its end, one after the other.
RECURSIVE FilesStarted(_, _)
FilesStarted(st, files) ==
  IF files = <<>> THEN st
  ELSE FilesStarted(IndexedFromCache(st, Head(files)), Tail(files))

\* Array.from(state.indexingQueue), for a queue given as a set.
PathOrder == <<"a.ts", "./a.ts", "b.ts">>
QueueList(queue) == SelectSeq(PathOrder, LAMBDA p : p \in queue)

SetIndex(st) ==
  /\ fileIndex' = st.fileIndex
  /\ symbolIndex' = st.symbolIndex
  /\ kindIndex' = st.kindIndex
  /\ containerIndex' = st.containerIndex
  /\ fileWatchers' = st.fileWatchers
  /\ Fits(symbolIndex') /\ Fits(kindIndex') /\ Fits(containerIndex')

\* processIndexingQueue(state) with the given queue and cache, up to its await.
ProcessIndexingQueue(queue, hits) ==
  IF queue = {}
  THEN /\ isIndexing' = FALSE
       /\ reindexing' = [p \in Paths |-> Idle]
       /\ UNCHANGED <<fileIndex, symbolIndex, kindIndex, containerIndex, fileWatchers,
                      lastIndexOp>>
  ELSE /\ isIndexing' = TRUE
       /\ SetIndex(FilesStarted(IndexState, SelectSeq(QueueList(queue), LAMBDA f : f \in hits)))
       /\ reindexing' = [p \in Paths |->
            IF p \notin queue THEN Idle
            ELSE IF p \in hits THEN [Idle EXCEPT !.pc = "done"]
            ELSE [Idle EXCEPT !.pc = "reading"]]
       /\ lastIndexOp' = [op |-> "reindex", path |-> "-"]

WatchFrame == UNCHANGED <<poolVars, clientVars, callerVars, hookVars, sessionVars, callVars, readerVars>>

\* The content of a watched file changes on disk; its watcher will report it.
FileChanges(a) ==
  /\ disk' = [disk EXCEPT ![a] = IF @ = MaxContent THEN 1 ELSE @ + 1]
  /\ changed' = [changed EXCEPT ![a] = @ \/ fileWatchers[a] # "-"]
  /\ UNCHANGED <<cache, indexingQueue, isIndexing, reindexing, flat>>
  /\ UNCHANGED <<poolVars, clientVars, callerVars, hookVars, sessionVars, indexVars, callVars, readerVars>>

\* manager.invalidateFile(relativePath)
CacheInvalidated(a) == NoEntry

\* queueReindex starts processIndexingQueue when state.isIndexing is false.
NoDrainActive == FALSE
DrainAlwaysActive == TRUE
DrainActive == isIndexing

\* The watcher of a file reports "change": queueReindex(state, filePath), and
\* processIndexingQueue when no drain is running.
WatcherChange(a) ==
  LET p == fileWatchers[a] IN
  /\ changed[a] /\ fileWatchers[a] # "-"
  /\ changed' = [changed EXCEPT ![a] = FALSE]
  /\ cache' = [cache EXCEPT ![Resolve(p)] = CacheInvalidated(Resolve(p))]
  /\ IF DrainActive
     THEN /\ indexingQueue' = indexingQueue \cup {p}
          /\ UNCHANGED <<isIndexing, reindexing, fileIndex, symbolIndex, kindIndex,
                         containerIndex, fileWatchers, lastIndexOp>>
     ELSE /\ indexingQueue' = {}
          /\ ProcessIndexingQueue(indexingQueue \cup {p}, {})
  /\ UNCHANGED <<disk, flat, indexing>>
  /\ WatchFrame

\* readFile resolved with the content on disk; withTemporaryDocument opens the
\* document and getDocumentSymbols sends the request. With state.process null
\* openDocument throws: indexError.
ReindexRead(p) ==
  /\ reindexing[p].pc = "reading"
  /\ IF process[1] = "running"
     THEN /\ CanSend(1) /\ Len(docWritten) + 2 <= MaxNotes
          /\ OpenAll(<<DocOf(Resolve(p))>>)
          /\ SendRequestOn({1}, "textDocument/documentSymbol", {1})
          /\ reindexing' = [reindexing EXCEPT ![p] =
               [pc |-> "awaitSymbols", content |-> disk[Resolve(p)], req |-> Len(reqs[1]) + 1]]
     ELSE /\ reindexing' = [reindexing EXCEPT ![p].pc = "done"]
          /\ UNCHANGED <<docWritten, openDocuments, diagnostics, messageId, reqs,
                         responseHandlers, written>>
  /\ UNCHANGED <<published, waiters, serverRequests, pullUri, tools>>
  /\ UNCHANGED <<poolVars, process, killed, delivered, stopPhase, callerVars, hookVars>>
  /\ UNCHANGED <<indexVars, callVars, readerVars, disk, changed, cache, indexingQueue, isIndexing, flat>>

\* The request of getDocumentSymbols settled: withTemporaryDocument closes the
\* document; with symbols the record is set, updateIndices runs and the cache
\* write is awaited; without, indexError.
ReindexSymbols(p) ==
  LET r == reqs[1][reindexing[p].req]
      u == UriOfPath(p)
      symbols == SymbolsOf(reindexing[p].content, u, flat) IN
  /\ reindexing[p].pc = "awaitSymbols"
  /\ r.outcome # "pending"
  /\ CloseAll(<<DocOf(Resolve(p))>>)
  /\ IF r.outcome = "result" /\ r.val # "null"
     THEN /\ fileIndex' = [fileIndex EXCEPT ![u] = [present |-> TRUE, symbols |-> symbols]]
          /\ symbolIndex' = UpdateIndex(symbolIndex, symbols, u, "name")
          /\ kindIndex' = UpdateIndex(kindIndex, symbols, u, "kind")
          /\ containerIndex' = UpdateIndex(containerIndex, symbols, u, "container")
          /\ Fits(symbolIndex') /\ Fits(kindIndex') /\ Fits(containerIndex')
          /\ reindexing' = [reindexing EXCEPT ![p].pc = "caching"]
          /\ lastIndexOp' = [op |-> "reindex", path |-> p]
     ELSE /\ reindexing' = [reindexing EXCEPT ![p].pc = "done"]
          /\ UNCHANGED <<fileIndex, symbolIndex, kindIndex, containerIndex, lastIndexOp>>
  /\ UNCHANGED <<published, waiters, serverRequests, pullUri, tools>>
  /\ UNCHANGED <<poolVars, clientVars, callerVars, hookVars, callVars, readerVars>>
  /\ UNCHANGED <<fileWatchers, indexing, disk, changed, cache, indexingQueue, isIndexing, flat>>

\* cacheSymbolsFromIndex(state, absolutePath) resolved: the symbols of the record
\* are stored under the hash of the file on disk; then watchFile(filePath).
ReindexCached(p) ==
  LET a == Resolve(p) IN
  /\ reindexing[p].pc = "caching"
  /\ cache' = [cache EXCEPT ![a] =
       IF fileIndex[UriOfPath(p)].present
       THEN [hash |-> disk[a], symbols |-> fileIndex[UriOfPath(p)].symbols]
       ELSE @]
  /\ fileWatchers' = [fileWatchers EXCEPT ![a] = IF @ = "-" THEN p ELSE @]
  /\ reindexing' = [reindexing EXCEPT ![p].pc = "done"]
  /\ lastIndexOp' = [op |-> "reindex", path |-> p]
  /\ UNCHANGED <<fileIndex, symbolIndex, kindIndex, containerIndex, indexing>>
  /\ UNCHANGED <<disk, changed, indexingQueue, isIndexing, flat>>
  /\ WatchFrame

\* indexFiles resolved: processIndexingQueue calls itself.
DrainContinues ==
  /\ isIndexing
  /\ \A p \in Paths : reindexing[p].pc \in {"none", "done"}
  /\ indexingQueue' = {}
  /\ ProcessIndexingQueue(indexingQueue, {f \in Paths : CacheHit(Resolve(f))})
  /\ UNCHANGED <<disk, changed, cache, flat, indexing>>
  /\ WatchFrame

\* What querySymbols returns for the queries by one name and for the query of
\* everything.
Snapshot ==
  [q \in {x \in Queries : [x EXCEPT !.name = ""] = [kind |-> <<>>, name |-> "",
                             containerName |-> "", file |-> "", includeChildren |-> "unset",
                             includeExternal |-> "unset", onlyExternal |-> "unset",
                             sourceLibrary |-> ""]}
     |-> QuerySymbols(q)]

\* indexFile(filePath) called while the cache holds a valid entry of the file.
IndexFileCacheHit(p) ==
  /\ CacheHit(Resolve(p))
  /\ SetIndex(IndexedFromCache(IndexState, p))
  /\ lastIndexOp' = [op |-> "cacheHit", path |-> p]
  /\ call' = [op |-> "indexFile", state |-> "returned", path |-> p,
              recorded |-> /\ fileIndex[UriOfPath(p)].present
                           /\ fileIndex[UriOfPath(p)].symbols = cache[Resolve(p)].symbols,
              before |-> Snapshot]
  /\ ret' = <<>>
  /\ UNCHANGED <<indexing, watchVars, readerVars>>
  /\ UNCHANGED <<poolVars, clientVars, callerVars, hookVars, sessionVars>>

\* The index after indexFile("a.ts") ran to its end for the first content, with
\* a server of either kind.
InitWatch ==
  /\ StartedClient /\ NoSession /\ NoCall /\ NoReader
  /\ flat \in BOOLEAN
  /\ IndexBuilt(SymbolsOf(1, "file:///r/a.ts", flat), <<>>, <<>>)
  /\ disk = [a \in AbsPaths |-> 1]
  /\ changed = [a \in AbsPaths |-> FALSE]
  /\ cache = [a \in AbsPaths |->
               IF a = "/r/a.ts"
               THEN [hash |-> 1, symbols |-> SymbolsOf(1, "file:///r/a.ts", flat)]
               ELSE NoEntry]
  /\ indexingQueue = {}
  /\ isIndexing = FALSE
  /\ reindexing = [p \in Paths |-> Idle]

NextWatch ==
  \/ FileChanges("/r/a.ts")
  \/ \E a \in AbsPaths : WatcherChange(a)
  \/ \E p \in Paths : ReindexRead(p)
  \/ \E p \in Paths : ReindexSymbols(p)
  \/ \E p \in Paths : ReindexCached(p)
  \/ DrainContinues
  \/ \E p \in Paths : IndexFileCacheHit(p)
  \/ \E a \in AbsPaths : WatcherRename(a)
  \/ \E i \in Ids, kind \in {"result", "error"}, v \in Results :
       responseHandlers[1][i] # 0 /\ ToolServerResponse(i, kind, v)
  \/ \E k \in Ids : RequestTimeout(1, k)
  \/ ProcessExit(1)

SpecWatch == InitWatch /\ [][NextWatch]_vars

\* The drain of the reindex queue when the changes stop: both files are indexed,
\* cached and watched.
InitDrain ==
  /\ StartedClient /\ NoSession /\ NoCall /\ NoReader
  /\ flat \in BOOLEAN
  /\ IndexBuilt(SymbolsOf(1, "file:///r/a.ts", flat), SymbolsOf(1, "file:///r/b.ts", flat), <<>>)
  /\ disk = [a \in AbsPaths |-> 1]
  /\ changed = [a \in AbsPaths |-> FALSE]
  /\ cache = [a \in AbsPaths |-> [hash |-> 1, symbols |-> SymbolsOf(1, PathToFileURL(a), flat)]]
  /\ indexingQueue = {}
  /\ isIndexing = FALSE
  /\ reindexing = [p \in Paths |-> Idle]

\* Every file changes once.
LastChange(a) == disk[a] = 1 /\ FileChanges(a)

NextDrain ==
  \/ \E a \in AbsPaths : LastChange(a)
  \/ \E a \in AbsPaths : WatcherChange(a)
  \/ \E p \in Paths : ReindexRead(p)
  \/ \E p \in Paths : ReindexSymbols(p)
  \/ \E p \in Paths : ReindexCached(p)
  \/ DrainContinues
  \/ \E i \in Ids, kind \in {"result", "error"}, v \in Results :
       responseHandlers[1][i] # 0 /\ ToolServerResponse(i, kind, v)
  \/ \E k \in Ids : RequestTimeout(1, k)
  \/ ProcessExit(1)

\* The event loop runs every callback that is ready: the watcher's event, the
\* continuations of indexFile and of processIndexingQueue, and the timer of a
\* request. The server need not answer and the files need not change.
DrainFairness ==
  /\ \A a \in AbsPaths : WF_vars(WatcherChange(a))
  /\ \A p \in Paths : WF_vars(ReindexRead(p))
  /\ \A p \in Paths : WF_vars(ReindexSymbols(p))
  /\ \A p \in Paths : WF_vars(ReindexCached(p))
  /\ WF_vars(DrainContinues)
  /\ \A k \in Ids : WF_vars(RequestTimeout(1, k))

SpecDrain == InitDrain /\ [][NextDrain]_vars /\ DrainFairness


\* ------------------------------------------------------------ text edits

\* A string is the sequence of its characters.
\* String.prototype.substring(from, to), both clamped to the length
Substring(s, from, to) ==
  LET Clamp(i) == IF i > Len(s) THEN Len(s) ELSE i IN
  SubSeq(s, Clamp(from) + 1, Clamp(to))

\* String.prototype.split("\n")
RECURSIVE SplitLines(_)
SplitLines(s) ==
  IF \E i \in 1..Len(s) : s[i] = "\n"
  THEN LET i == CHOOSE k \in 1..Len(s) : s[k] = "\n" /\ \A j \in 1..(k - 1) : s[j] # "\n" IN
       <<SubSeq(s, 1, i - 1)>> \o SplitLines(SubSeq(s, i + 1, Len(s)))
  ELSE <<s>>

\* Array.prototype.join("\n")
RECURSIVE JoinLines(_)
JoinLines(lines) ==
  IF lines = <<>> THEN <<>>
  ELSE IF Len(lines) = 1 THEN lines[1]
  ELSE lines[1] \o <<"\n">> \o JoinLines(Tail(lines))

\* lines.splice(start, deleteCount, ...items), as the new array
Splice(lines, start, deleteCount, items) ==
  SubSeq(lines, 1, start) \o items \o SubSeq(lines, start + deleteCount + 1, Len(lines))

\* The comparator of both sorts puts b before a when b starts later.
StartsLater(b, a) ==
  IF a.range.start.line # b.range.start.line
  THEN b.range.start.line > a.range.start.line
  ELSE b.range.start.character > a.range.start.character

\* [...edits].sort(comparator): by start position, last first; the sort is
\* stable, edits with the same start keep the order of the list.
RECURSIVE SortedEdits(_)
SortedEdits(edits) ==
  IF edits = <<>> THEN <<>>
  ELSE LET e == edits[Len(edits)]
           rest == SortedEdits(SubSeq(edits, 1, Len(edits) - 1))
           ahead == SelectSeq(rest, LAMBDA x : ~StartsLater(e, x))
           behind == SelectSeq(rest, LAMBDA x : StartsLater(e, x)) IN
       ahead \o <<e>> \o behind

\* applyTextEditsToContent, one edit of the loop
RenameEdit(lines, edit) ==
  LET startLine == edit.range.start.line
      startCol == edit.range.start.character
      endLine == edit.range.end.line
      endCol == edit.range.end.character
      newLines == SplitLines(edit.newText)
      before == Substring(lines[startLine + 1], 0, startCol)
      after == Substring(lines[endLine + 1], endCol, Len(lines[endLine + 1])) IN
  IF startLine = endLine
  THEN [lines EXCEPT ![startLine + 1] = before \o edit.newText \o after]
  ELSE IF Len(newLines) = 1
    THEN Splice(lines, startLine, endLine - startLine + 1, << before \o newLines[1] \o after >>)
  ELSE Splice(lines, startLine, endLine - startLine + 1,
              << before \o newLines[1] >> \o SubSeq(newLines, 2, Len(newLines) - 1)
                \o << newLines[Len(newLines)] \o after >>)

\* applyEdit, the manual fallback, one edit of the loop
ManualEdit(lines, edit) ==
  LET range == edit.range
      Line(i) == IF i + 1 \in DOMAIN lines THEN lines[i + 1] ELSE <<>>
      before == Substring(Line(range.start.line), 0, range.start.character)
      after == Substring(Line(range.end.line), range.end.character, Len(Line(range.end.line))) IN
  IF /\ range.start.character = 0 /\ range.end.line > range.start.line
     /\ range.end.character = 0 /\ edit.newText = <<>>
  THEN Splice(lines, range.start.line, range.end.line - range.start.line, <<>>)
  ELSE Splice(lines, range.start.line, range.end.line - range.start.line + 1,
              SplitLines(before \o edit.newText \o after))

RECURSIVE ApplyEdits(_, _, _)
ApplyEdits(lines, edits, applier) ==
  IF edits = <<>> THEN lines
  ELSE ApplyEdits(IF applier = "applyEdit" THEN ManualEdit(lines, Head(edits))
                  ELSE RenameEdit(lines, Head(edits)),
                  Tail(edits), applier)

\* applyTextEditsToContent(content, edits), and what the manual fallback of
\* applyEdit writes back for a file with this content.
ApplyTextEdits(content, edits, applier) ==
  JoinLines(ApplyEdits(SplitLines(content), SortedEdits(edits), applier))

\* The document that is edited, its positions, and the edits of a server.
MaxEdits == 2
Document == <<"a", "b", "\n", "c", "d", "\n", "e", "f">>
EditPositions ==
  {[line |-> l, character |-> c] : l \in 0..(Len(SplitLines(Document)) - 1), c \in 0..2}
Before(x, y) == x.line < y.line \/ (x.line = y.line /\ x.character <= y.character)
TextEdits ==
  {e \in [range : [start : EditPositions, end : EditPositions],
          newText : {<<>>, <<"X">>, <<"X", "\n", "Y">>}] :
     Before(e.range.start, e.range.end)}
\* The ranges of the edits of one list never overlap.
NonOverlapping(edits) ==
  \A i, j \in DOMAIN edits : i # j =>
    \/ Before(edits[i].range.end, edits[j].range.start)
    \/ Before(edits[j].range.end, edits[i].range.start)
EditLists == {edits \in UNION {[1..n -> TextEdits] : n \in 1..MaxEdits} : NonOverlapping(edits)}

InitEdits ==
  /\ StartedClient /\ NoSession /\ NoIndex /\ NoWatch /\ NoReader
  /\ \E edits \in EditLists : \E applier \in {"applyEdit", "applyTextEditsToContent"} :
       call = [op |-> applier, state |-> "called", content |-> Document, edits |-> edits]
  /\ ret = <<>>

\* The applier returns (applyEdit: writes the file).
EditsApplied ==
  /\ call.op \in {"applyEdit", "applyTextEditsToContent"} /\ call.state = "called"
  /\ ret' = ApplyTextEdits(call.content, call.edits, call.op)
  /\ call' = [call EXCEPT !.state = "returned"]
  /\ UNCHANGED <<poolVars, clientVars, callerVars, hookVars, sessionVars, indexVars,
                 watchVars, readerVars>>

NextEdits == EditsApplied

SpecEdits == InitEdits /\ [][NextEdits]_vars

\* ------------------------------------------------------------ the module graph

\* The source files of a project, and relative(rootDir, path).
Modules == {"/p/a.ts", "/p/b.ts", "/p/c.ts"}
ModuleOrder == <<"/p/a.ts", "/p/b.ts", "/p/c.ts">>
Relative(path) ==
  CASE path = "/p/a.ts" -> "a.ts"
    [] path = "/p/b.ts" -> "b.ts"
    [] path = "/p/c.ts" -> "c.ts"

MaxImports == 2      \* import declarations of one file
MaxReExports == 1    \* export ... from declarations of one file

ListsUpTo(S, n) == UNION {[1..k -> S] : k \in 0..n}

\* A project: for every file the resolved modules of its import declarations and
\* of its export declarations, in the order of the declarations.
Projects ==
  [imports : [Modules -> ListsUpTo(Modules, MaxImports)],
   exports : [Modules -> ListsUpTo(Modules, MaxReExports)]]
EntryPointLists == {<<"/p/a.ts">>, <<"/p/a.ts", "/p/b.ts">>}

\* The modules one file pushes on the queue: those of its imports, then those of
\* its re-exports, that are not visited.
QueuedImports(project, filePath, visited) ==
  SelectSeq(project.imports[filePath], LAMBDA m : m \notin visited)
Queued(project, filePath, visited) ==
  SelectSeq(project.imports[filePath], LAMBDA m : m \notin visited)
    \o SelectSeq(project.exports[filePath], LAMBDA m : m \notin visited)

\* The while loop of getModuleGraph: graph.nodes in the order of insertion.
RECURSIVE BuildGraph(_, _, _, _)
BuildGraph(project, queue, visited, nodes) ==
  IF queue = <<>> THEN nodes
  ELSE LET filePath == Head(queue) IN
       IF filePath \in visited THEN BuildGraph(project, Tail(queue), visited, nodes)
       ELSE BuildGraph(project,
                       Tail(queue) \o Queued(project, filePath, visited \cup {filePath}),
                       visited \cup {filePath},
                       Append(nodes, [filePath |-> filePath,
                                      imports |-> project.imports[filePath],
                                      exports |-> project.exports[filePath]]))

\* The second pass: importedFrom of one node.
RECURSIVE ImportedFrom(_, _)
ImportedFrom(nodes, filePath) ==
  IF nodes = <<>> THEN <<>>
  ELSE [i \in 1..Len(SelectSeq(Head(nodes).imports, LAMBDA m : m = filePath)) |->
          Head(nodes).filePath] \o ImportedFrom(Tail(nodes), filePath)

\* path.indexOf(x), from 1; 0 when x is not in the path
IndexOf(path, x) ==
  IF \E i \in DOMAIN path : path[i] = x
  THEN CHOOSE i \in DOMAIN path : path[i] = x /\ \A j \in 1..(i - 1) : path[j] # x
  ELSE 0

\* No cycle is taken for one that is recorded.
NeverEqual(cycle1, cycle2) == FALSE

\* areCyclesEqual(cycle1, cycle2)
AreCyclesEqual(cycle1, cycle2) ==
  /\ Len(cycle1) = Len(cycle2)
  /\ IndexOf(cycle2, cycle1[1]) # 0
  /\ \A i \in 0..(Len(cycle1) - 2) :
       cycle1[i + 1] = cycle2[((IndexOf(cycle2, cycle1[1]) - 1 + i) % (Len(cycle2) - 1)) + 1]

NodeOf(nodes, filePath) == SelectSeq(nodes, LAMBDA n : n.filePath = filePath)

\* dfs(filePath, path) of detectCircularDependencies, on the state
\* [visited, recursionStack, cycles]; DfsImports is its loop over node.imports
\* from the i-th import on.
RECURSIVE Dfs(_, _, _, _)
RECURSIVE DfsImports(_, _, _, _, _)
Dfs(nodes, st, filePath, path) ==
  LET entered == [st EXCEPT !.visited = @ \cup {filePath},
                            !.recursionStack = @ \cup {filePath}]
      node == NodeOf(nodes, filePath)
      left == IF node # <<>>
              THEN DfsImports(nodes, entered, Append(path, filePath), node[1].imports, 1)
              ELSE entered IN
  [left EXCEPT !.recursionStack = @ \ {filePath}]
DfsImports(nodes, st, path, imports, i) ==
  IF i > Len(imports) THEN st
  ELSE LET importPath == imports[i]
           cycleStart == IndexOf(path, importPath)
           cycle == Append(SubSeq(path, cycleStart, Len(path)), importPath)
           after ==
             IF importPath \notin st.visited THEN Dfs(nodes, st, importPath, path)
             ELSE IF importPath \in st.recursionStack /\ cycleStart # 0
                     /\ ~\E k \in DOMAIN st.cycles : AreCyclesEqual(cycle, st.cycles[k])
               THEN [st EXCEPT !.cycles = Append(@, cycle)]
             ELSE st IN
       DfsImports(nodes, after, path, imports, i + 1)

\* detectCircularDependencies(graph): dfs from every node not yet visited.
RECURSIVE DfsFrom(_, _, _)
DfsFrom(nodes, st, k) ==
  IF k > Len(nodes) THEN st
  ELSE DfsFrom(nodes,
               IF nodes[k].filePath \in st.visited THEN st
               ELSE Dfs(nodes, st, nodes[k].filePath, <<>>),
               k + 1)
DetectCircularDependencies(nodes) ==
  DfsFrom(nodes, [visited |-> {}, recursionStack |-> {}, cycles |-> <<>>], 1).cycles

RelativeAll(paths) == [i \in DOMAIN paths |-> Relative(paths[i])]

\* getModuleGraph(project, request): the graph of the result.
GetModuleGraph(project, entryPoints) ==
  LET nodes == BuildGraph(project, entryPoints, {}, <<>>)
      cycles == DetectCircularDependencies(nodes) IN
  [files |-> [k \in DOMAIN nodes |->
                [path |-> Relative(nodes[k].filePath),
                 imports |-> RelativeAll(nodes[k].imports),
                 exports |-> RelativeAll(nodes[k].exports),
                 importedBy |-> RelativeAll(ImportedFrom(nodes, nodes[k].filePath))]],
   totalFiles |-> Len(nodes),
   circularDependencies |-> [k \in DOMAIN cycles |-> RelativeAll(cycles[k])]]

InitGraph ==
  /\ StartedClient /\ NoSession /\ NoIndex /\ NoWatch /\ NoReader
  /\ \E project \in Projects, entryPoints \in EntryPointLists :
       call = [op |-> "getModuleGraph", state |-> "called", project |-> project,
               entryPoints |-> entryPoints]
  /\ ret = <<>>

GraphReturns ==
  /\ call.op = "getModuleGraph" /\ call.state = "called"
  /\ ret' = GetModuleGraph(call.project, call.entryPoints)
  /\ call' = [call EXCEPT !.state = "returned"]
  /\ UNCHANGED <<poolVars, clientVars, callerVars, hookVars, sessionVars, indexVars,
                 watchVars, readerVars>>

NextGraph == GraphReturns

SpecGraph == InitGraph /\ [][NextGraph]_vars

\* ------------------------------------------------------------ the framing codec

\* Text is a sequence of UTF-16 code units, data a sequence of bytes. The
\* characters of one byte are their own byte; "U+00E9" takes two bytes.
CharBytes(c) ==
  IF c = "U+00E9" THEN <<"C3", "A9">>
  ELSE IF c = "U+FFFD" THEN <<"EF", "BF", "BD">>
  ELSE <<c>>

\* What stdin.write(text) writes, and Buffer.byteLength(text)
RECURSIVE Utf8Encode(_)
Utf8Encode(text) ==
  IF text = <<>> THEN <<>> ELSE CharBytes(Head(text)) \o Utf8Encode(Tail(text))
ByteLength(text) == Len(Utf8Encode(text))

\* The length of a text in code units.
StringLength(text) == Len(text)

\* data.toString() of one chunk: a sequence that is cut by the end of the chunk,
\* and a byte that continues nothing, become U+FFFD.
RECURSIVE Utf8Decode(_)
Utf8Decode(data) ==
  IF data = <<>> THEN <<>>
  ELSE IF Head(data) = "C3" /\ Len(data) >= 2 /\ data[2] = "A9"
    THEN <<"U+00E9">> \o Utf8Decode(SubSeq(data, 3, Len(data)))
  ELSE IF Head(data) \in {"C3", "A9"} THEN <<"U+FFFD">> \o Utf8Decode(Tail(data))
  ELSE <<Head(data)>> \o Utf8Decode(Tail(data))

DigitChars == <<"0", "1", "2", "3", "4", "5", "6", "7", "8", "9">>
IsDigit(c) == \E d \in DOMAIN DigitChars : DigitChars[d] = c
DigitValue(c) == (CHOOSE d \in DOMAIN DigitChars : DigitChars[d] = c) - 1

\* `${n}` of a length
RECURSIVE NumberText(_)
NumberText(n) ==
  IF n < 10 THEN <<DigitChars[n + 1]>> ELSE NumberText(n \div 10) \o <<DigitChars[(n % 10) + 1]>>

\* parseInt(digits, 10)
RECURSIVE ParseInt(_)
ParseInt(digits) ==
  IF digits = <<>> THEN 0
  ELSE ParseInt(SubSeq(digits, 1, Len(digits) - 1)) * 10 + DigitValue(digits[Len(digits)])

HeaderName ==
  <<"C", "o", "n", "t", "e", "n", "t", "-", "L", "e", "n", "g", "t", "h", ":", " ">>
HeaderEnd == <<"\r", "\n", "\r", "\n">>

\* buffer.indexOf(text): the first index (from 0) where text starts, -1 if none
IndexOfText(buf, text) ==
  LET TextAt(i) == i + Len(text) <= Len(buf) /\ SubSeq(buf, i + 1, i + Len(text)) = text IN
  IF \E i \in 0..Len(buf) : TextAt(i)
  THEN CHOOSE i \in 0..Len(buf) : TextAt(i) /\ \A j \in 0..(i - 1) : ~TextAt(j)
  ELSE 0 - 1

\* header.match(/Content-Length: (\d+)/): the digits captured, <<>> for no match
ContentLengthMatch(header) ==
  LET NameAt(i) == /\ i + Len(HeaderName) + 1 <= Len(header)
               /\ SubSeq(header, i + 1, i + Len(HeaderName)) = HeaderName
               /\ IsDigit(header[i + Len(HeaderName) + 1]) IN
  IF \E i \in 0..Len(header) : NameAt(i)
  THEN LET i == CHOOSE k \in 0..Len(header) : NameAt(k) /\ \A j \in 0..(k - 1) : ~NameAt(j)
           from == i + Len(HeaderName) + 1
           to == CHOOSE e \in from..Len(header) :
                   /\ \A k \in from..e : IsDigit(header[k])
                   /\ (e = Len(header) \/ ~IsDigit(header[e + 1])) IN
       SubSeq(header, from, to)
  ELSE <<>>

\* The messages of the server and JSON.stringify of each.
Messages == {"m1", "m2", "mE"}
Stringify(m) ==
  CASE m = "m1" -> <<"[", "1", "]">>
    [] m = "m2" -> <<"[", "2", "]">>
    [] m = "mE" -> <<"[", "\"", "U+00E9", "\"", "]">>
    [] m = "mFFFD" -> <<"[", "\"", "U+FFFD", "U+FFFD", "\"", "]">>

\* JSON.parse(text): the value, or "SyntaxError" (thrown). White space around
\* the value is allowed.
RECURSIVE TrimText(_)
TrimText(text) ==
  IF text # <<>> /\ Head(text) \in {"\r", "\n", " "} THEN TrimText(Tail(text))
  ELSE IF text # <<>> /\ text[Len(text)] \in {"\r", "\n", " "}
    THEN TrimText(SubSeq(text, 1, Len(text) - 1))
  ELSE text
JsonParse(text) ==
  LET t == TrimText(text) IN
  IF \E m \in Messages \cup {"mFFFD"} : Stringify(m) = t
  THEN CHOOSE m \in Messages \cup {"mFFFD"} : Stringify(m) = t
  ELSE IF t # <<>> /\ \A k \in DOMAIN t : IsDigit(t[k]) /\ (Len(t) = 1 \/ t[1] # "0")
    THEN "number"
  ELSE "SyntaxError"

\* sendMessage: the header with the byte length of the content, and the content.
Framed(content) ==
  Utf8Encode(HeaderName \o NumberText(ByteLength(content)) \o HeaderEnd \o content)

\* processBuffer() on [buffer, contentLength, messages]
RECURSIVE ProcessBuffer(_)
RECURSIVE ProcessBody(_)
ProcessBuffer(st) ==
  IF StringLength(st.buffer) = 0 THEN st
  ELSE IF st.contentLength = 0 - 1
    THEN LET headerEnd == IndexOfText(st.buffer, HeaderEnd)
             header == Substring(st.buffer, 0, headerEnd)
             match == ContentLengthMatch(header)
             rest == Substring(st.buffer, headerEnd + 4, Len(st.buffer)) IN
         IF headerEnd = 0 - 1 THEN st
         ELSE IF match = <<>> THEN ProcessBuffer([st EXCEPT !.buffer = rest])
         ELSE ProcessBody([st EXCEPT !.contentLength = ParseInt(match), !.buffer = rest])
  ELSE ProcessBody(st)
ProcessBody(st) ==
  IF StringLength(st.buffer) < st.contentLength THEN st
  ELSE LET messageBody == Substring(st.buffer, 0, st.contentLength)
           message == JsonParse(messageBody) IN
       ProcessBuffer([buffer |-> Substring(st.buffer, st.contentLength, Len(st.buffer)),
                      contentLength |-> 0 - 1,
                      messages |-> IF message = "SyntaxError" THEN st.messages
                                   ELSE Append(st.messages, message)])

\* What the server writes: messages framed as above, header blocks without a
\* Content-Length field, and frames whose body is not JSON.
MaxFrames == 2
MaxSplits == 2
NoLengthBlock == <<"X", ":", "1">> \o HeaderEnd
Frames == [type : {"message"}, message : Messages]
            \cup {[type |-> "noLength", message |-> "-"], [type |-> "notJson", message |-> "-"]}
FrameData(f) ==
  CASE f.type = "message" -> Framed(Stringify(f.message))
    [] f.type = "noLength" -> Utf8Encode(NoLengthBlock)
    [] f.type = "notJson" -> Framed(<<"[", "1">>)
RECURSIVE StreamData(_)
StreamData(frames) ==
  IF frames = <<>> THEN <<>> ELSE FrameData(Head(frames)) \o StreamData(Tail(frames))
FrameLists == UNION {[1..n -> Frames] : n \in 1..MaxFrames}

\* The chunks of data cut after the bytes numbered in cuts.
RECURSIVE Chunks(_, _, _)
Chunks(data, cuts, from) ==
  IF \A c \in cuts : c <= from THEN <<SubSeq(data, from + 1, Len(data))>>
  ELSE LET c == CHOOSE x \in cuts : x > from /\ \A y \in cuts : y > from => x <= y IN
       <<SubSeq(data, from + 1, c)>> \o Chunks(data, cuts, c)
CutSets(n) ==
  {{}} \cup {{a, b} : a, b \in 1..(n - 1)}

InitReader ==
  /\ StartedClient /\ NoSession /\ NoIndex /\ NoWatch
  /\ ret = <<>>
  /\ buffer = <<>> /\ contentLength = 0 - 1 /\ messages = <<>>
  /\ \E frames \in FrameLists : \E cuts \in CutSets(Len(StreamData(frames))) :
       /\ Cardinality(cuts) <= MaxSplits
       /\ call = [op |-> "read", frames |-> frames, cuts |-> cuts]
       /\ stdout = Chunks(StreamData(frames), cuts, 0)

\* stdout.on("data"): state.buffer += data.toString(); processBuffer()
DataReceived ==
  LET st == ProcessBuffer([buffer |-> buffer \o Utf8Decode(Head(stdout)),
                           contentLength |-> contentLength,
                           messages |-> messages]) IN
  /\ stdout # <<>>
  /\ stdout' = Tail(stdout)
  /\ buffer' = st.buffer
  /\ contentLength' = st.contentLength
  /\ messages' = st.messages
  /\ UNCHANGED <<poolVars, clientVars, callerVars, hookVars, sessionVars, indexVars,
                 callVars, watchVars>>

NextReader == DataReceived

SpecReader == InitReader /\ [][NextReader]_vars

\* ================================================================ claims
Awaiting(c) == cpc[c] \in {"initiating", "joining"}
InitiatorDone(p) == \A c \in Callers : ~(cpc[c] = "initiating" /\ cpid[c] = p)
InFlightOrPooled(r) ==
  {p \in Pids : procRoot[p] = r /\ createState[p] \in {"pending", "resolved"} /\ stopPhase[p] = "none"}
Position(p, m) ==
  IF \E j \in 1..Len(written[p]) : written[p][j].method = m
  THEN CHOOSE j \in 1..Len(written[p]) : written[p][j].method = m
  ELSE 0
ReqOf(p, m) == {k \in 1..Len(reqs[p]) : reqs[p][k].method = m}

\* C1  Single-flight: for every root at most one server process is initializing or
\* pooled at any time, so the acquires that interleave while the pool has no entry
\* spawn one process; every acquire that resolves hands out an initialized entry,
\* and callers that hold handles of the same live generation hold the same entry.
C1_SingleFlight ==
  /\ \A r \in Roots : Cardinality(InFlightOrPooled(r)) <= 1
  /\ \A c \in Callers : cpc[c] = "holding" => createState[cpid[c]] = "resolved"
  /\ \A c \in Callers : cpc[c] = "joining" /\ createState[cpid[c]] = "pending"
                           => initPromises[procRoot[cpid[c]]] = cpid[c]

\* Two acquires of one root interleaved on a cold pool and both resolved to the
\* one process ever spawned.
C1_Witness ==
  \E c, d \in Callers :
    /\ c # d /\ cpc[c] = "holding" /\ cpc[d] = "holding"
    /\ cpid[c] = cpid[d] /\ spawned = 1 /\ refCount[cpid[c]] = 1

\* C2  The pool holds at most one entry per root (an entry is stored under the
\* root it was created for, and under no second key), and every entry in the pool
\* has reference count >= 1.
C2_PoolInvariant ==
  \A r \in Roots :
    pool[r] # 0 =>
      /\ refCount[pool[r]] >= 1
      /\ procRoot[pool[r]] = r
      /\ \A r2 \in Roots \ {r} : pool[r2] # pool[r]

\* An entry is in the pool after releases and a shutdown() took others out.
C2_Witness ==
  \E r \in Roots :
    /\ pool[r] # 0 /\ refCount[pool[r]] = 1 /\ sdPc # "idle"
    /\ \E p \in Pids : stopPhase[p] # "none" /\ p \notin sdSet

\* C3  (as claimed) While a caller holds a handle that it has not released, and
\* shutdown() was never called, the entry is in the pool and its server was not
\* sent shutdown.
C3_HandleKeepsEntry ==
  sdPc = "idle" =>
    \A c \in Callers :
      cpc[c] = "holding" =>
        /\ pool[procRoot[cpid[c]]] = cpid[c]
        /\ stopPhase[cpid[c]] = "none"

\* C4  A failed initialization leaves no entry in the pool and no caller with a
\* handle; every caller that awaited it is failed or still to be failed; once the
\* initiating acquire has resumed the in-flight promise is gone, so the next
\* acquire spawns afresh.
C4_InitFailure ==
  \A p \in Pids :
    createState[p] = "rejected" =>
      /\ pool[procRoot[p]] # p
      /\ \A c \in Callers : cpid[c] = p => cpc[c] \in {"initiating", "joining", "failed"}
      /\ InitiatorDone(p) => initPromises[procRoot[p]] # p

\* An initialization failed, its initiator and a joiner were both failed, and a
\* later acquire of the same root has spawned a new process.
C4_Witness ==
  \E p, q \in Pids :
    /\ p < q /\ procRoot[p] = procRoot[q]
    /\ createState[p] = "rejected" /\ createState[q] = "pending"
    /\ \E c \in Callers : cpc[c] = "failed" /\ cpid[c] = p

\* C5  (as claimed) A server stopped by a release is sent shutdown, then exit,
\* then killed: whenever it was killed, exit was sent before.
C5_FullSequence ==
  sdPc = "idle" => \A p \in Pids : killed[p] => Position(p, "exit") # 0

\* C5  (amended) A stopped entry is out of the pool; exit is written only after
\* shutdown and only when the shutdown request was answered with a result; the
\* process is killed only after shutdown was written, the shutdown request has
\* settled and the grace interval has passed.
C5_StopOrder ==
  \A p \in Pids :
    /\ stopPhase[p] # "none" => pool[procRoot[p]] # p
    /\ Position(p, "exit") # 0 =>
         /\ Position(p, "shutdown") # 0
         /\ Position(p, "shutdown") < Position(p, "exit")
         /\ \E k \in ReqOf(p, "shutdown") : reqs[p][k].outcome = "result"
    /\ killed[p] =>
         /\ Position(p, "shutdown") # 0
         /\ stopPhase[p] = "done"
         /\ \A k \in ReqOf(p, "shutdown") : reqs[p][k].outcome # "pending"
    /\ stopPhase[p] = "awaitShutdown" => Position(p, "shutdown") # 0

\* A release brought the count to zero and the server was sent shutdown, then
\* exit, then killed.
C5_Witness ==
  /\ sdPc = "idle"
  /\ \E p \in Pids :
       /\ killed[p] /\ refCount[p] = 0
       /\ Position(p, "shutdown") # 0
       /\ Position(p, "shutdown") < Position(p, "exit")

\* C6  (as claimed) Once shutdown() resolves the pool contains no entry.
C6_PoolEmptyOnResolve ==
  [][(sdPc # "resolved" /\ sdPc' = "resolved") => \A r \in Roots : pool'[r] = 0]_vars

\* C6  (amended) The call of shutdown() removes every entry and starts stop() on
\* the client of each, whatever its reference count; when shutdown() has resolved
\* every one of those stop() calls has returned and none of those entries is in
\* the pool.
C6_ShutdownReleasesAll ==
  /\ [][(sdPc # "awaiting" /\ (sdPc' # sdPc \/ sdSet' # sdSet)) =>
          \A r \in Roots : /\ pool'[r] = 0
                           /\ pool[r] # 0 => stopPhase'[pool[r]] # "none"]_vars
  /\ [](sdPc = "resolved" =>
          \A p \in sdSet : stopPhase[p] = "done" /\ pool[procRoot[p]] # p)

\* shutdown() has resolved after removing an entry that two callers still held.
C6_Witness ==
  /\ sdPc = "resolved"
  /\ \E p \in sdSet : refCount[p] >= 2 /\ stopPhase[p] = "done"

\* C7  (as claimed) Once the server process has exited no request is left pending:
\* the pending-response map is empty.
C7_ExitFailsPending ==
  \A p \in Pids : process[p] = "null" => responseHandlers[p] = NoHandlers

\* C8  A request is settled by its response or by its timeout, at most once in
\* all: the response handler and the timeout callback of one request never both
\* run, neither runs twice, the handler's run clears the timeout, and the pending
\* entry is present exactly while neither has run.
C8_SettledOnce ==
  \A p \in Pids : \A k \in 1..Len(reqs[p]) :
    LET r == reqs[p][k] IN
    /\ r.nResp + r.nTimeout <= 1
    /\ (responseHandlers[p][r.id] = k) <=> (r.nResp + r.nTimeout = 0)
    /\ r.nResp = 1 <=> r.timer = "cleared"
    /\ r.nTimeout = 1 <=> r.timer = "fired"
    /\ r.outcome \in {"result", "error"} => r.nResp = 1
    /\ r.outcome = "timeout" => r.nTimeout = 1

\* A request was settled by its response and the server sent a second response
\* with the same id.
C8_Witness ==
  \E k \in 1..Len(reqs[1]) :
    /\ reqs[1][k].nResp = 1 /\ reqs[1][k].outcome = "result"
    /\ Len(delivered[1][reqs[1][k].id]) = 2

\* C9  A request whose timeout fired has no pending entry, and its caller failed
\* with the timeout error (or, when the request could not be written, had failed
\* with the send error before); a response whose id has no pending entry changes
\* neither the pending map nor the outcome of any request.
C9_TimeoutThenLateResponse ==
  /\ [](\A p \in Pids : \A k \in 1..Len(reqs[p]) :
          reqs[p][k].timer = "fired" =>
            /\ responseHandlers[p][reqs[p][k].id] = 0
            /\ reqs[p][k].outcome \in {"timeout", "sendError"})
  /\ [][\A p \in Pids : \A i \in Ids :
          (delivered'[p][i] # delivered[p][i] /\ responseHandlers[p][i] = 0)
             => (reqs' = reqs /\ responseHandlers' = responseHandlers)]_vars

\* A request timed out and a response with its id arrived afterwards.
C9_Witness ==
  \E k \in 1..Len(reqs[1]) :
    /\ reqs[1][k].timer = "fired" /\ reqs[1][k].outcome = "timeout"
    /\ Len(delivered[1][reqs[1][k].id]) >= 1

\* C10  Ids grow strictly with every request of a client, and a request that was
\* answered carries the result or error of the first response with its own id.
C10_Correlation ==
  \A p \in Pids : \A k \in 1..Len(reqs[p]) :
    /\ \A j \in 1..(k - 1) : reqs[p][j].id < reqs[p][k].id
    /\ reqs[p][k].outcome \in {"result", "error"} =>
         /\ Len(delivered[p][reqs[p][k].id]) >= 1
         /\ delivered[p][reqs[p][k].id][1] = [kind |-> reqs[p][k].outcome, val |-> reqs[p][k].val]

\* Three requests were outstanding together and were answered out of order with
\* different payloads; the last one is still pending.
C10_Witness ==
  /\ Len(reqs[1]) = 3
  /\ reqs[1][1].outcome = "pending"
  /\ reqs[1][2].outcome = "error" /\ reqs[1][2].val = "v2"
  /\ reqs[1][3].outcome = "result" /\ reqs[1][3].val = "v1"

\* C11  (as claimed) Every request received from the server has a response written
\* to the server that carries its id.
C11_ServerRequestAnswered ==
  \A r \in serverRequests :
    \E j \in 1..Len(written[1]) : written[1][j] = Msg("response", r.id)

\* C12  (as claimed) For every uri with an entry in the diagnostics store, the
\* stored list is the list of valid diagnostics of the most recent
\* publishDiagnostics received for that uri.
C12_StoreIsLastPublished ==
  \A u \in Uris :
    diagnostics[u] # Absent =>
      /\ published[u] # Absent
      /\ diagnostics[u] = ValidDiagnostics(published[u])

\* C13  A waitForDiagnostics call settles at most once; it is waiting exactly while
\* its listener is registered, and while it waits no publishDiagnostics for its uri
\* has arrived; it resolves with the valid diagnostics of the first
\* publishDiagnostics for its uri received after the call, whatever arrived for
\* other uris; it fails with the timeout only while none has arrived.
C13_WaitForDiagnostics ==
  \A w \in DOMAIN waiters :
    LET x == waiters[w] IN
    /\ x.nSettle <= 1
    /\ (x.state = "waiting") <=> x.listening
    /\ (x.state = "waiting") <=> (x.nSettle = 0)
    /\ x.state = "waiting" => x.first = Absent /\ x.timer = "armed"
    /\ x.state = "resolved" =>
         x.first # Absent /\ x.val = ValidDiagnostics(x.first) /\ x.timer = "cleared"
    /\ x.state = "timedOut" => x.val = Absent /\ x.timer = "fired"

\* Two calls waited for u1 while diagnostics for u2 were published: one timed out,
\* the other resolved with the valid part of the first list published for u1, and
\* a later list for u1 changed nothing.
C13_Witness ==
  /\ Len(waiters) = 2
  /\ waiters[1].uri = "u1" /\ waiters[1].state = "timedOut"
  /\ waiters[2].uri = "u1" /\ waiters[2].state = "resolved"
  /\ waiters[2].first = <<"d1", "noRange">> /\ waiters[2].val = <<"d1">>
  /\ published["u1"] = <<"d2">>
  /\ published["u2"] # Absent

\* The document of a notification is open when the notification is written: a
\* didOpen for its uri precedes it with no didClose for that uri in between.
OpenAt(j) ==
  \E i \in 1..(j - 1) :
    /\ docWritten[i].method = "textDocument/didOpen"
    /\ docWritten[i].uri = docWritten[j].uri
    /\ \A k \in (i + 1)..(j - 1) :
         ~(docWritten[k].method = "textDocument/didClose" /\ docWritten[k].uri = docWritten[j].uri)

\* C14  (as claimed) The client never writes a didOpen for a document that is
\* open: between two didOpen for one uri there is a didClose for it.
C14_NoDoubleOpen ==
  \A j \in 1..Len(docWritten) :
    docWritten[j].method = "textDocument/didOpen" => ~OpenAt(j)

\* C15  (as claimed) Every didChange and every didClose the client writes is for a
\* document that is open at that point: its didOpen was written before, and no
\* didClose since.
C15_OpenChangeClose ==
  \A j \in 1..Len(docWritten) :
    docWritten[j].method \in {"textDocument/didChange", "textDocument/didClose"} => OpenAt(j)

\* C16  (as claimed) The version of every didChange is greater than 1 and greater
\* than the version of every earlier didChange for the same uri.
C16_VersionsIncrease ==
  \A j \in 1..Len(docWritten) :
    docWritten[j].method = "textDocument/didChange" =>
      /\ docWritten[j].version > 1
      /\ \A i \in 1..(j - 1) :
           (docWritten[i].method = "textDocument/didChange" /\ docWritten[i].uri = docWritten[j].uri)
              => docWritten[i].version < docWritten[j].version

\* C17  (as claimed) For every uri that is not open, openDocument followed by
\* closeDocument leaves the set of open documents and the diagnostics store as
\* they were.
C17_RoundTrip ==
  \A u \in Uris \ openDocuments : AfterClose(AfterOpen(Session, u), u) = Session

\* C17  (amended) For every uri that is not open, openDocument followed by
\* closeDocument leaves the set of open documents as it was and the diagnostics
\* store as it was except that it has no entry for that uri: the session state is
\* the same whenever no diagnostics were stored for the uri.
C17_RoundTripClearsDiagnostics ==
  \A u \in Uris \ openDocuments :
    /\ AfterClose(AfterOpen(Session, u), u) = [Session EXCEPT !.diag = [@ EXCEPT ![u] = Absent]]
    /\ diagnostics[u] = Absent => AfterClose(AfterOpen(Session, u), u) = Session

\* u1 was opened and closed again while u2 stayed open with stored diagnostics.
C17_Witness ==
  /\ Len(docWritten) >= 3
  /\ docWritten[Len(docWritten) - 1] = Note("textDocument/didOpen", "u1", 1)
  /\ docWritten[Len(docWritten)] = Note("textDocument/didClose", "u1", 0)
  /\ openDocuments = {"u2"}
  /\ diagnostics["u2"] # Absent /\ diagnostics["u1"] = Absent

\* C18  (as claimed) A tool operation that has returned has closed every document
\* it opened.
C18_ToolsCloseDocuments ==
  \A t \in DOMAIN tools :
    tools[t].pc = "returned" => tools[t].opened \subseteq tools[t].closed

\* C19  Handshake order of start(): `initialize` is the first message written;
\* `initialized` is written only after the initialize request was answered with a
\* result; the postInitialize hook starts only after `initialized` was written;
\* when initialize fails or times out neither `initialized` is written nor the
\* hook run, and start() has rejected.
C19_HandshakeOrder ==
  \A p \in Pids :
    /\ Len(written[p]) >= 1 => written[p][1].method = "initialize"
    /\ Position(p, "initialized") # 0 =>
         /\ Position(p, "initialize") < Position(p, "initialized")
         /\ \E k \in ReqOf(p, "initialize") : reqs[p][k].outcome = "result"
    /\ hookPc[p] # "none" => hasHook[p] /\ Position(p, "initialized") # 0
    /\ \A k \in ReqOf(p, "initialize") :
         reqs[p][k].outcome \in {"error", "timeout", "sendError"} =>
           /\ Position(p, "initialized") = 0
           /\ hookPc[p] = "none"
           /\ createState[p] = "rejected"

\* start() resolved after initialize was answered, `initialized` was sent and the
\* hook of the language has run.
C19_Witness ==
  /\ hookPc[1] = "done" /\ createState[1] = "resolved"
  /\ Position(1, "initialized") = 2

\* C20  When removeFileFromIndex(p) has returned, no entry located in uri(p) is in
\* the name index, the kind index or the container index, the file index has no
\* record for uri(p), and no watcher is registered for p.
C20_RemoveFile ==
  lastIndexOp.op = "remove" =>
    LET u == UriOfPath(lastIndexOp.path) IN
    /\ \A n \in Names : \A i \in 1..Len(symbolIndex[n]) : symbolIndex[n][i].uri # u
    /\ \A k \in Kinds : \A i \in 1..Len(kindIndex[k]) : kindIndex[k][i].uri # u
    /\ \A n \in Names : \A i \in 1..Len(containerIndex[n]) : containerIndex[n][i].uri # u
    /\ ~fileIndex[u].present
    /\ fileWatchers[Resolve(lastIndexOp.path)] = "-"

\* a.ts, indexed with a class and its method and watched, was removed under its
\* other spelling while b.ts stays indexed with a symbol of the same name.
C20_Witness ==
  /\ lastIndexOp = [op |-> "remove", path |-> "./a.ts"]
  /\ fileIndex["file:///r/b.ts"].present
  /\ symbolIndex["bar"] = << SymbolEntry("bar", "function", "file:///r/b.ts", "") >>
  /\ fileWatchers["/r/b.ts"] = "b.ts"
  /\ indexing["a.ts"] = "none"

\* The number of entries of a list that equal e.
Occurrences(list, e) == Cardinality({i \in 1..Len(list) : list[i] = e})

\* Every entry of `map` is a symbol of the record of its uri, as often at most.
EntriesMatchRecords(map) ==
  \A key \in DOMAIN map : \A i \in 1..Len(map[key]) :
    LET e == map[key][i] IN
    /\ fileIndex[e.uri].present
    /\ Occurrences(Flatten(fileIndex[e.uri].symbols), e) >= 1
    /\ Occurrences(map[key], e) <= Occurrences(Flatten(fileIndex[e.uri].symbols), e)

\* C21  After any sequence of indexFile, removeFileFromIndex, clearIndex and
\* indexExternalLibrariesForState, every entry of the name, kind and container
\* index is exactly one symbol of the file-index record of its uri: no entry of
\* a file without a record, no stale entry, no duplicate.
C21_IndicesMatchFileIndex ==
  (\A p \in Paths : indexing[p] = "none") =>
    /\ EntriesMatchRecords(symbolIndex)
    /\ EntriesMatchRecords(kindIndex)
    /\ EntriesMatchRecords(containerIndex)

\* The entries of a list, and the entries of the name index.
Elems(list) == {list[i] : i \in 1..Len(list)}
NameEntries == UNION {Elems(symbolIndex[n]) : n \in DOMAIN symbolIndex}
Returned(op) == call.op = op /\ call.state = "returned"

\* C22  querySymbols with a name (and no filter but the kind) returns the indexed
\* entries whose name equals it; when there is none, the entries whose name
\* contains it, whatever the case; with a kind given as well, those of them that
\* have one of the kinds; it returns a list, the empty one when nothing matches.
C22_NameQuery ==
  LET q == call.query IN
  (Returned("querySymbols") /\ q.name # ""
     /\ [q EXCEPT !.name = "", !.kind = <<>>]
          = [name |-> "", kind |-> <<>>, containerName |-> "", file |-> "",
             includeChildren |-> "unset", includeExternal |-> "unset",
             onlyExternal |-> "unset", sourceLibrary |-> ""]) =>
    LET exact == {e \in NameEntries : e.name = q.name}
        partial == {e \in NameEntries :
                      Includes(ToLowerCase(Chars(e.name)), ToLowerCase(Chars(q.name)))}
        byName == IF exact # {} THEN exact ELSE partial
        expected == IF q.kind = <<>> THEN byName
                    ELSE {e \in byName : e.kind \in Elems(q.kind)} IN
    Elems(ret) = expected

\* "Foo" was asked for with the kind class while a function fooBar is indexed:
\* the class is returned, the function is not.
C22_Witness ==
  /\ Returned("querySymbols")
  /\ call.query = [name |-> "Foo", kind |-> <<"class">>, containerName |-> "", file |-> "",
                   includeChildren |-> "unset", includeExternal |-> "unset",
                   onlyExternal |-> "unset", sourceLibrary |-> ""]
  /\ symbolIndex["fooBar"] # <<>>
  /\ ret # <<>> /\ ret = symbolIndex["Foo"]

\* C23  With onlyExternal set every entry querySymbols returns has the external
\* flag; with includeExternal false or left out none has it, whatever the other
\* filters are.
C23_ExternalFilter ==
  Returned("querySymbols") =>
    /\ call.query.onlyExternal = "true" => \A e \in Elems(ret) : e.isExternal
    /\ (call.query.onlyExternal # "true" /\ call.query.includeExternal \in {"unset", "false"})
         => \A e \in Elems(ret) : ~e.isExternal

\* The entries of a symbol list and of their descendants, each with its depth.
RECURSIVE WithDepth(_, _)
WithDepth(list, d) ==
  IF list = <<>> THEN {}
  ELSE {<<d, Head(list)>>} \cup WithDepth(Head(list).children, d + 1)
         \cup WithDepth(Tail(list), d)

\* position is not before the start and not after the end of the range.
Contains(range, position) ==
  LET Leq(a, b) == a.line < b.line \/ (a.line = b.line /\ a.character <= b.character) IN
  Leq(range.start, position) /\ Leq(position, range.end)

C25_CacheHit ==
  /\ [][call' # call => UNCHANGED <<clientVars, sessionVars>>]_vars
  /\ []((/\ Returned("indexFile")
         /\ lastIndexOp = [op |-> "cacheHit", path |-> call.path]
         /\ call.recorded)
        => Snapshot = call.before)

\* C26  A "change" event of a watcher invalidates the cache entry of the file and
\* queues its path (or starts its reindex at once); a path taken from the queue
\* and indexed from the cache gets the symbols of the content on disk; after a
\* "rename" event the file has no record and no watcher.
C26_WatcherEvents ==
  /\ [][\A a \in AbsPaths : (changed[a] /\ ~changed'[a]) =>
          /\ cache'[a].hash = 0
          /\ \/ fileWatchers[a] \in indexingQueue'
             \/ reindexing'[fileWatchers[a]].pc = "reading"]_vars
  /\ [][\A p \in Paths :
          (p \in indexingQueue /\ p \notin indexingQueue' /\ reindexing'[p].pc = "done")
            => fileIndex'[UriOfPath(p)].symbols
                 = SymbolsOf(disk[Resolve(p)], UriOfPath(p), flat)]_vars
  /\ [](lastIndexOp.op = "remove" =>
          /\ ~fileIndex[UriOfPath(lastIndexOp.path)].present
          /\ fileWatchers[Resolve(lastIndexOp.path)] = "-")

\* The offset of a position in a content.
Offset(content, pos) ==
  LET lines == SplitLines(content)
      RECURSIVE Upto(_)
      Upto(l) == IF l = 0 THEN 0 ELSE Upto(l - 1) + Len(lines[l]) + 1 IN
  Upto(pos.line) + pos.character

\* No two edits insert at one position (the order of two such insertions is
\* the order of the list, by definition).
OneInsertion(edits) ==
  \A i, j \in DOMAIN edits : i # j =>
    ~(/\ edits[i].range.start = edits[j].range.start
      /\ edits[i].range.end = edits[i].range.start
      /\ edits[j].range.end = edits[j].range.start)

\* Every range of the original content replaced at once: the edits from the
\* first to the last of the document, the text between them kept.
RECURSIVE Replaced(_, _, _)
Replaced(content, edits, from) ==
  IF edits = {} THEN SubSeq(content, from + 1, Len(content))
  ELSE LET e == CHOOSE x \in edits : \A y \in edits :
                  /\ Before(x.range.start, y.range.start)
                  /\ Before(x.range.end, y.range.end) IN
       SubSeq(content, from + 1, Offset(content, e.range.start)) \o e.newText
         \o Replaced(content, edits \ {e}, Offset(content, e.range.end))

\* C27  Both appliers, given pairwise non-overlapping edits of one document,
\* return the content in which every range of the original is replaced at once,
\* whatever the order of the edits in the list.
C27_EditsApplied ==
  (call.op \in {"applyEdit", "applyTextEditsToContent"} /\ call.state = "returned"
     /\ NonOverlapping(call.edits) /\ OneInsertion(call.edits)) =>
    ret = Replaced(call.content, {call.edits[i] : i \in DOMAIN call.edits}, 0)

\* The rename_symbol operations that have returned after the request of method m.
RenameReturnedAfter(m) ==
  {t \in DOMAIN tools : /\ tools[t].kind = "renameSymbol" /\ tools[t].pc = "returned"
                        /\ tools[t].req # 0 /\ reqs[1][tools[t].req].method = m}

\* C28  A rename_symbol whose textDocument/rename was answered with error code
\* -32601 returns the error "LSP server doesn't support rename operation", and
\* has applied no edit.
C28_RenameUnsupported ==
  \A t \in RenameReturnedAfter("textDocument/rename") :
    (reqs[1][tools[t].req].outcome = "error"
       /\ ErrorCode(reqs[1][tools[t].req].val) = 0 - 32601) =>
      tools[t].result = "LSP server doesn't support rename operation"

\* C29  A rename_symbol whose textDocument/prepareRename was answered with an
\* error does not return there: it goes on to send textDocument/rename.
C29_PrepareRenameOptional ==
  \A t \in RenameReturnedAfter("textDocument/prepareRename") :
    reqs[1][tools[t].req].outcome # "error"

\* C30  acquire(root) never returns the pool entry of a server process that has
\* exited: the entry it returns has a running process.
C30_DeadEntryDropped ==
  [][\A c \in Callers, r \in Roots :
       AcquireExisting(c, r) => process[pool[r]] = "running"]_vars

\* The relative paths of the files of the returned graph.
GraphFiles == {ret.files[k].path : k \in DOMAIN ret.files}

\* The import edges between the files of the returned graph.
ImportEdge(f, g) ==
  \E k \in DOMAIN ret.files :
    ret.files[k].path = f /\ \E i \in DOMAIN ret.files[k].imports : ret.files[k].imports[i] = g

\* The files reached from the set S over the relation Edge in any number of steps.
RECURSIVE Closure(_, _, _)
Closure(S, Edge(_, _), All) ==
  LET T == S \cup {g \in All : \E f \in S : Edge(f, g)} IN
  IF T = S THEN S ELSE Closure(T, Edge, All)

HasImportCycle ==
  \E f \in GraphFiles : f \in Closure({g \in GraphFiles : ImportEdge(f, g)}, ImportEdge, GraphFiles)

\* The rotations of a closed path, as sets of numbered edges.
SameCycle(c1, c2) ==
  /\ Len(c1) = Len(c2)
  /\ \E s \in 0..(Len(c1) - 2) : \A i \in 0..(Len(c1) - 2) :
       c1[i + 1] = c2[((s + i) % (Len(c2) - 1)) + 1]

GraphReturned == call.op = "getModuleGraph" /\ call.state = "returned"

\* C31  circularDependencies is empty exactly when the import graph of the
\* returned files has no cycle; every reported cycle is a closed path along
\* import edges; no cycle is reported twice, in any rotation.
C31_CircularDependencies ==
  GraphReturned =>
    LET cycles == ret.circularDependencies IN
    /\ (cycles = <<>>) <=> ~HasImportCycle
    /\ \A k \in DOMAIN cycles :
         /\ Len(cycles[k]) >= 2
         /\ cycles[k][1] = cycles[k][Len(cycles[k])]
         /\ \A i \in 1..(Len(cycles[k]) - 1) : ImportEdge(cycles[k][i], cycles[k][i + 1])
    /\ \A j, k \in DOMAIN cycles : j # k => ~SameCycle(cycles[j], cycles[k])

\* A graph with two cycles, one of them entered by two import declarations.
C31_Witness ==
  /\ GraphReturned
  /\ Len(ret.circularDependencies) = 2
  /\ \E k \in DOMAIN ret.files : Len(ret.files[k].imports) = 2
       /\ ret.files[k].imports[1] = ret.files[k].imports[2]

\* The modules of the project reached from the entry points over import and
\* re-export declarations.
ProjectEdge(f, g) ==
  \/ \E i \in DOMAIN call.project.imports[f] : call.project.imports[f][i] = g
  \/ \E i \in DOMAIN call.project.exports[f] : call.project.exports[f][i] = g
Reachable ==
  Closure({call.entryPoints[i] : i \in DOMAIN call.entryPoints}, ProjectEdge, Modules)

\* C32  getModuleGraph returns on every project, and the files of its graph are
\* the files reached from the entry points over imports and re-exports, each once.
C32_ReachableFiles ==
  GraphReturned =>
    /\ GraphFiles = {Relative(m) : m \in Reachable}
    /\ Len(ret.files) = Cardinality(Reachable)
    /\ ret.totalFiles = Cardinality(Reachable)

\* A project with an import cycle, a file reached over a re-export only and a
\* file that is not reached.
C32_Witness ==
  /\ GraphReturned
  /\ ret.circularDependencies # <<>>
  /\ Cardinality(Reachable) = 2
  /\ \E m \in Reachable : m \notin {call.entryPoints[i] : i \in DOMAIN call.entryPoints}
       /\ \A f \in Modules : \A i \in DOMAIN call.project.imports[f] :
            call.project.imports[f][i] # m

\* All the data of the stream has been read.
StreamRead == call.op = "read" /\ stdout = <<>>
FramesOfType(type) == SelectSeq(call.frames, LAMBDA f : f.type = type)
SentMessages == [k \in DOMAIN FramesOfType("message") |-> FramesOfType("message")[k].message]

\* C33  After a stream with a header block that has no Content-Length, or with
\* a body that is not JSON, the messages delivered are the well-formed ones of
\* the stream, in order, and the reader has no pending body.
C33_FramingRecovery ==
  (StreamRead /\ Len(SentMessages) < Len(call.frames)) =>
    /\ messages = SentMessages
    /\ contentLength = 0 - 1
    /\ buffer = <<>>

\* C34  The messages the reader delivers from the framed output of the writer
\* are the messages written, in order.
C34_FramingRoundTrip ==
  (StreamRead /\ Len(SentMessages) = Len(call.frames)) => messages = SentMessages

\* C35  However a stream of framed messages is cut into chunks, the reader
\* delivers what it delivers when the stream arrives as one chunk.
C35_ChunkIndependence ==
  (StreamRead /\ Len(SentMessages) = Len(call.frames)) =>
    messages = ProcessBuffer([buffer |-> Utf8Decode(StreamData(call.frames)),
                              contentLength |-> 0 - 1, messages |-> <<>>]).messages

\* C36  A path whose watcher has reported a change, or that waits in the queue,
\* is handed to indexFile by a later batch, also when the indexing of another
\* file fails; when the changes have stopped the queue ends empty with
\* isIndexing false.
C36_QueueDrains ==
  /\ \A a \in AbsPaths :
       (changed[a] /\ fileWatchers[a] # "-") ~>
         (~changed[a] /\ fileWatchers[a] \notin indexingQueue
            /\ reindexing[fileWatchers[a]].pc # "none")
  /\ \A p \in Paths :
       (p \in indexingQueue) ~> (p \notin indexingQueue /\ reindexing[p].pc # "none")
  /\ <>[](indexingQueue = {} /\ ~isIndexing)

\* b.ts is queued while the drain that indexes a.ts runs, and the request of
\* a.ts has failed.
C36_Witness ==
  /\ isIndexing /\ indexingQueue = {"b.ts"}
  /\ reindexing["a.ts"].pc = "done" /\ reindexing["a.ts"].req # 0
  /\ reqs[1][reindexing["a.ts"].req].outcome \in {"error", "timeout"}

\* A step in which processIndexingQueue takes a batch.
BatchTaken ==
  \E p \in Paths :
    \/ reindexing'[p].pc = "reading" /\ reindexing[p].pc # "reading"
    \/ reindexing'[p].pc = "done" /\ reindexing[p].pc = "none"

\* C37  isIndexing is true while a file of a batch is being indexed, and a batch
\* is taken only when no file of an earlier batch is still being indexed.
C37_OneDrain ==
  /\ [](\A p \in Paths : reindexing[p].pc \notin {"none", "done"} => isIndexing)
  /\ [][BatchTaken => \A q \in Paths : reindexing[q].pc \in {"none", "done"}]_vars

\* A change is reported while the request of a file of the running batch is pending.
C37_Witness ==
  /\ isIndexing /\ indexingQueue # {}
  /\ \E p \in Paths : reindexing[p].pc = "awaitSymbols"

\* The last operation on the index removed the record of the file of path p.
JustRemoved(p) ==
  \/ lastIndexOp.op = "clear"
  \/ lastIndexOp.op = "remove" /\ UriOfPath(lastIndexOp.path) = UriOfPath(p)

\* No index has an entry of the file u.
NoEntryOf(u) ==
  /\ ~fileIndex[u].present
  /\ \A n \in Names : \A i \in DOMAIN symbolIndex[n] : symbolIndex[n][i].uri # u
  /\ \A k \in Kinds : \A i \in DOMAIN kindIndex[k] : kindIndex[k][i].uri # u
  /\ \A n \in Names : \A i \in DOMAIN containerIndex[n] : containerIndex[n][i].uri # u

\* C38  When the file of an indexFile call in flight has just been removed (or
\* the index cleared), the steps in which that call goes on leave every index
\* without an entry of the file and the file without a watcher.
C38_RemovalNotUndone ==
  [][\A p \in Paths :
       (JustRemoved(p) /\ indexing[p] \in {"awaitSymbols", "caching"}
          /\ indexing'[p] # indexing[p]) =>
         (NoEntryOf(UriOfPath(p))' /\ fileWatchers'[Resolve(p)] = "-")]_vars


\* The request of pending entry i of client p was written to the server.
WasWritten(p, k) ==
  \E j \in 1..Len(written[p]) : written[p][j] = Msg(reqs[p][k].method, reqs[p][k].id)

\* C39  The pending-response map holds only ids of requests that were written to
\* the server and are neither answered nor timed out; a request whose message
\* could not be written has rejected and has neither a pending entry nor a timer.
C39_PendingOnlyWritten ==
  \A p \in Pids :
    /\ \A i \in Ids :
         responseHandlers[p][i] # 0 =>
           /\ reqs[p][responseHandlers[p][i]].outcome = "pending"
           /\ WasWritten(p, responseHandlers[p][i])
    /\ \A k \in 1..Len(reqs[p]) :
         reqs[p][k].outcome = "sendError" =>
           /\ responseHandlers[p][reqs[p][k].id] = 0
           /\ reqs[p][k].timer # "armed"


\* shutdown() was called while the initialization of p was in flight, and both
\* the shutdown and the acquire that started p have completed.
RaceCompleted(p) ==
  /\ p \in sdInit
  /\ sdPc = "resolved"
  /\ p \notin InFlight
  /\ createState[p] \in {"resolved", "rejected"}

\* The pool holds the entry of p, or stop() has been called on its client.
TrackedOrStopped(p) == pool[procRoot[p]] = p \/ stopPhase[p] # "none"

\* C40  When shutdown() was called while the initialization started by
\* acquire(root) was in flight, then after both have completed the server of that
\* initialization does not run untracked: the pool holds its entry, or its
\* client has been stopped.
C40_ShutdownRace ==
  \A p \in Pids :
    (RaceCompleted(p) /\ process[p] = "running") => TrackedOrStopped(p)

====
